---- MODULE Spec2Model ----
(***************************************************************************)
(* PiTrac launch monitor: the camera event loops                           *)
(* (ball_flight_camera_event_loop, still_image_event_loop,                 *)
(* ball_watcher_event_loop) and the layered ConfigurationManager.          *)
(*                                                                         *)
(* SpecCamera runs one of the three event loops, chosen in Init, against   *)
(* an environment that delivers camera messages, advances the steady       *)
(* clock and may clear the process-wide running flag.                      *)
(***************************************************************************)
EXTENDS Integers, Sequences, FiniteSets, TLC

VARIABLES
    \* ---- which event loop this run executes, and where it is
    loop,                   \* "flight" | "watcher" | "still"
    pc,                     \* "start" | "loop" | "returned" | "thrown"
    result,                 \* the function's return value ("none" until it returns)
    golf_sim_running_,      \* GolfSimGlobals::golf_sim_running_
    now,                    \* std::chrono::steady_clock::now(), in milliseconds
    msg,                    \* the message app.Wait() returned last
    nframes,                \* completed requests delivered so far
    ops,                    \* the calls the last step made on app, in order
    syncHeld,               \* a BufferReadSync is alive (library buffer mapped for reading)
    cameraStarted,          \* app.StartCamera() minus app.StopCamera()
    encoderStarted,         \* app.StartEncoder() minus app.StopEncoder()
    returnImg,              \* cv::Mat& returnImg
    \* ---- ball_flight_camera_event_loop locals and the constants it reads
    state,                  \* FlightCameraState state
    switched,               \* the value of state the last switch(state) dispatched on
    timeOfFirstTrigger,
    return_status,
    innomaker_first_external_trigger_is_set,
    advanceFrame,           \* history: the frame whose trigger ended the priming period (0: none yet)
    kSystemSlot2CameraType, \* GolfSimCamera::kSystemSlot2CameraType
    kUsePreImageSubtraction,
    kCameraRequiresFlushPulse,
    kNumberPrimingPulses,   \* PulseStrobe::kNumberPrimingPulses
    kPrimingPulseFPS,       \* PulseStrobe::kPrimingPulseFPS
    \* ---- still_image_event_loop
    cameraConfig,           \* which stream app holds: "viewfinder" | "still" | "video"
    start_time,
    optionsTimeout,         \* options->timeout, in milliseconds (0: none)
    \* ---- ball_watcher_event_loop
    motion_detected,
    \* ---- ConfigurationManager and the files it reads
    json_config_,           \* golf_sim_config.json, with the user settings merged in
    yaml_config_,           \* written by ApplyPreset only
    cli_overrides_,         \* runtime overrides
    mappings_,              \* parameter mappings (empty: LoadMappings has no caller)
    sysFile,                \* content of the system config file
    userFile,               \* content of $HOME/.pitrac/config/user_settings.json
    initOk,                 \* what the last Initialize / Reload returned ("none": not called)
    sysTier,                \* history: what read_json last put into json_config_
    userTier,               \* history: what merge_ptree has merged over it since
    reloaded,               \* history: Reload has been called
    presets_,               \* configuration presets (filled by LoadMappings only)
    mappingsFile,           \* content of parameter-mappings.yaml
    validation_errors_,     \* one entry per push_back of ValidateValue
    validateResult,         \* what the last ValidateConfiguration returned ("none": not called)
    presetOk,               \* what the last ApplyPreset returned ("none": not called)
    \* ---- two threads on the ConfigurationManager: one in Reload, one in GetValue
    config_mutex_,          \* "free", or the thread that holds the std::mutex
    reloadPc,               \* where the thread in Reload is
    getPc,                  \* where the thread in GetValue is
    getKey,                 \* the key it asks for
    observed,               \* history: what a GetValue that ran during the reload returned
    preValues,              \* history: what get returned for each key when Reload was entered
    \* ---- ONNXRuntimeDetector::NonMaxSuppression
    nms_threshold,          \* config_.nms_threshold, a fraction <<numerator, denominator>>
    nmsPc,                  \* where the call is
    detections,             \* the vector it is given, sorted in place
    suppressed,
    nmsI,                   \* the index of the outer loop (from 1)
    nmsResult,              \* the vector `result`
    keptIdx,                \* history: the indices of `detections` pushed to `result`
    \* ---- ONNXRuntimeDetector: letterbox of one image and its inverse
    lbPc,                   \* where the image is: "image", "preprocessed", "postprocessed"
    image,                  \* [cols, rows] of the source image
    input_size,             \* [input_width, input_height] of config_
    letterbox_params_,      \* [scale, x_offset, y_offset]; scale is a fraction <<n, d>>
    srcPoint,               \* a point of the source image, [x, y]
    tensorPoint,            \* where the letterbox puts it in the tensor (fractions)
    origPoint,              \* what the inverse letterbox makes of it (fractions)
    \* ---- ONNXRuntimeDetector::Detect called by several threads on one instance
    input_buffer_in_use,    \* MemoryPool::input_buffer_in_use
    letterboxOf,            \* the call whose image letterbox_params_ was computed from
    total_inferences_,
    avg_inference_time_ms_, \* a fraction <<n, d>>
    detectPc,               \* per thread: where its Detect call is
    heldBuffer,             \* per thread: what input_data points to
    metricsArg,             \* per thread: whether metrics is non-null
    inference_ms,           \* per thread: end_inference - start_inference of the call
    prev_avg,               \* per thread: the local prev_avg
    usedParams,             \* per thread: whose letterbox PostprocessYOLO was given
    callsMade,              \* per thread: the calls it has started
    detectExit,             \* per thread: how its last call left Detect
    doneCount,              \* history: the calls that ran to the final return
    doneSum,                \* history: the sum of their inference times
    \* ---- PreprocessingThreadPool
    stop_,
    tasks_,                 \* the number of tasks in the queue
    queue_mutex_,           \* the worker that holds it, or Unlocked
    workerPc,               \* per worker: where WorkerThread is
    ownerPc,                \* where the thread that owns the pool is
    batches,                \* the calls of PreprocessBatch made
    \* ---- GolfSimCalibration::AutoCalibrateCamera
    calPc,                  \* where the call is
    kNumberPicturesForFocalLengthAverage,
    kNumberOfCalibrationFailuresToTolerate,
    calI,                   \* the loop variable i
    number_failures,
    number_samples,
    average_focal_length,   \* a fraction <<n, d>>: the sum, then the average
    camera_angles,          \* <<x, y>> in degrees
    treeValues,             \* what SetTreeValue has put in the configuration tree
    putResults,             \* what the two calls of WebApi::UpdateCalibration returned
    backupFile,             \* the contents of the backup file, NoFile if there is none
    configFile,             \* the contents of the configuration file
    calResult,              \* "none", or what AutoCalibrateCamera returned
    calFailure,             \* the return statement that was taken
    imagesTaken,            \* history: the still pictures captured
    successes,              \* history: the samples whose ball detection succeeded
    successSum,             \* history: the sum of their focal lengths
    \* ---- PiTracTrajectoryCalculator
    trajPc,                 \* "ready", then "carried", then "traced"
    input,                  \* the TrajectoryInput, every field in halves of its unit
    absOverload,            \* what the unqualified abs of validateInput resolves to
    carryResult,            \* what calculateCarry returned
    fullTrajectory,         \* what calculateFullTrajectory returned
    libraryCalls,           \* the simulations run by the physics library
    \* ---- ConfigurationManager::GetInt, GetFloat, GetBool
    stored,                 \* the string GetValue finds for the key, NoString if no tier has it
    default_int,            \* the default_value given to GetInt
    default_float,          \* the default_value given to GetFloat, a fraction
    default_bool,           \* the default_value given to GetBool
    called,                 \* the getters that have returned
    intResult,              \* what GetInt returned
    floatResult,            \* what GetFloat returned
    boolResult,             \* what GetBool returned
    \* ---- ONNXRuntimeDetector::PostprocessYOLO
    yoloPc,                 \* "start", "loop" or "returned"
    input_width,            \* config_.input_width
    input_height,           \* config_.input_height
    num_classes,            \* config_.num_classes
    is_single_class_model,  \* config_.is_single_class_model
    output_size,            \* the number of floats of output_tensor
    safe_predictions,       \* the local of that name (0 until it is computed)
    predIdx,                \* the loop variable i of the prediction loop
    maxRead,                \* history: the largest index read of output_tensor (-1: none)
    \* ---- ConfigurationManager::ExportEffectiveConfig
    exportOk,               \* "none", or what ExportEffectiveConfig returned
    exportFormat,           \* the format it was given
    outputWritten,          \* the output file has been opened for writing
    outputFile              \* the tree write_json put into the output file

camVars == <<loop, pc, result, golf_sim_running_, now, msg, nframes, ops, syncHeld,
             cameraStarted, encoderStarted, returnImg, state, switched,
             timeOfFirstTrigger, return_status,
             innomaker_first_external_trigger_is_set, advanceFrame,
             kSystemSlot2CameraType,
             kUsePreImageSubtraction, kCameraRequiresFlushPulse,
             kNumberPrimingPulses, kPrimingPulseFPS, cameraConfig, start_time,
             optionsTimeout, motion_detected>>

tblVars == <<presets_, mappingsFile, validation_errors_, validateResult, presetOk>>

detVars == <<nms_threshold, nmsPc, detections, suppressed, nmsI, nmsResult, keptIdx>>

thrVars == <<config_mutex_, reloadPc, getPc, getKey, observed, preValues>>

cfgVars == <<json_config_, yaml_config_, cli_overrides_, mappings_, sysFile, userFile,
             initOk, sysTier, userTier, reloaded, tblVars, thrVars>>

\* What the actions of one part leave alone of the other parts.
lbVars == <<lbPc, image, input_size, letterbox_params_, srcPoint, tensorPoint, origPoint>>

dtVars == <<input_buffer_in_use, letterboxOf, total_inferences_, avg_inference_time_ms_,
           detectPc, heldBuffer, metricsArg, inference_ms, prev_avg, usedParams, callsMade,
           detectExit, doneCount, doneSum>>

poolVars == <<stop_, tasks_, queue_mutex_, workerPc, ownerPc, batches>>

calVars == <<calPc, kNumberPicturesForFocalLengthAverage,
            kNumberOfCalibrationFailuresToTolerate, calI, number_failures, number_samples,
            average_focal_length, camera_angles, treeValues, putResults, backupFile,
            configFile, calResult, calFailure, imagesTaken, successes, successSum>>

trajVars == <<trajPc, input, absOverload, carryResult, fullTrajectory, libraryCalls>>

coerceVars == <<stored, default_int, default_float, default_bool, called, intResult, floatResult, boolResult>>

yoloVars == <<yoloPc, input_width, input_height, num_classes, is_single_class_model, output_size, safe_predictions, predIdx, maxRead>>

expVars == <<exportOk, exportFormat, outputWritten, outputFile>>

notCamera == <<cfgVars, detVars, lbVars, dtVars, poolVars, calVars, trajVars, coerceVars, yoloVars, expVars>>

notConfig == <<camVars, detVars, lbVars, dtVars, poolVars, calVars, trajVars, coerceVars, yoloVars, expVars>>

notDetector == <<camVars, cfgVars, lbVars, dtVars, poolVars, calVars, trajVars, coerceVars, yoloVars, expVars>>

notLetterbox == <<camVars, cfgVars, detVars, dtVars, poolVars, calVars, trajVars, coerceVars, yoloVars, expVars>>

notDetect == <<camVars, cfgVars, detVars, lbVars, poolVars, calVars, trajVars, coerceVars, yoloVars, expVars>>

notPool == <<camVars, cfgVars, detVars, lbVars, dtVars, calVars, trajVars, coerceVars, yoloVars, expVars>>

notCalibration == <<camVars, cfgVars, detVars, lbVars, dtVars, poolVars, trajVars, coerceVars, yoloVars, expVars>>

notTrajectory == <<camVars, cfgVars, detVars, lbVars, dtVars, poolVars, calVars, coerceVars, yoloVars, expVars>>

notCoercion == <<camVars, cfgVars, detVars, lbVars, dtVars, poolVars, calVars, trajVars, yoloVars, expVars>>

notYolo == <<camVars, cfgVars, detVars, lbVars, dtVars, poolVars, calVars, trajVars, coerceVars, expVars>>

notExport == <<camVars, cfgVars, detVars, lbVars, dtVars, poolVars, calVars, trajVars, coerceVars, yoloVars>>

vars == <<camVars, cfgVars, detVars, lbVars, dtVars, poolVars, calVars, trajVars, coerceVars, yoloVars, expVars>>

(***************************************************************************)
(* Bounds of the model.                                                    *)
(***************************************************************************)
MaxTime == 6        \* the clock stops advancing here (milliseconds)
MaxFrames == 9      \* completed requests the camera delivers in one run

(***************************************************************************)
(* boost::property_tree::ptree, as far as the ConfigurationManager uses    *)
(* it: a tree of nodes addressed by dotted paths, each node holding a      *)
(* string (empty for a node that only has children).  A tree is a function *)
(* from the paths of the model to the node's data, or Absent.              *)
(***************************************************************************)
Paths == {<<"_preset">>, <<"a">>, <<"a", "b">>, <<"b">>}

\* The key Initialize reads the name of the preset from; the other keys are
\* settings.
PresetKey == <<"_preset">>

SettingKeys == Paths \ {PresetKey}

Absent == "<absent>"

EmptyTree == [p \in Paths |-> Absent]

Parent(p) == SubSeq(p, 1, Len(p) - 1)

Has(t, p) == t[p] # Absent

\* The paths of the model one level below `at` (<<>> is the root).
Below(at) == {p \in Paths : Len(p) = Len(at) + 1 /\ Parent(p) = at}

ChildrenOf(t, at) == {p \in Below(at) : Has(t, p)}

\* ptree::empty(): the node has no children.
IsLeaf(t, p) == ChildrenOf(t, p) = {}

\* Every node of a tree hangs off a node of the tree.
WellFormed(t) == \A p \in Paths : Has(t, p) /\ Len(p) > 1 => Has(t, Parent(p))

\* A put that replaces the node and what hangs under it.
Put_DropsChildren(t, path, value) ==
    [p \in Paths |->
       IF p = path THEN value
       ELSE IF Len(p) < Len(path) /\ SubSeq(path, 1, Len(p)) = p /\ t[p] = Absent THEN ""
       ELSE IF Len(p) > Len(path) /\ SubSeq(p, 1, Len(path)) = path THEN Absent
       ELSE t[p]]

\* ptree::put(path, value): the node gets the value; the nodes on the way to it
\* that are missing are created with empty data; its children stay.
Put(t, path, value) ==
    [p \in Paths |->
       IF p = path THEN value
       ELSE IF Len(p) < Len(path) /\ SubSeq(path, 1, Len(p)) = p /\ ~Has(t, p) THEN ""
       ELSE t[p]]

\* ptree::put_child(key, value) for a key the tree lacks: the subtree of `from`
\* at p, copied into t.
CopySubtree(from, t, at) ==
    [p \in Paths |->
       IF Len(p) >= Len(at) /\ SubSeq(p, 1, Len(at)) = at THEN from[p] ELSE t[p]]

\* configuration_manager.h:264-271: tree.get<std::string>(path): the node's data,
\* and std::nullopt (Absent) when there is no node at the path.
GetFromTree(t, path) == t[path]

\* A configuration file on disk: absent, not valid JSON, or the tree of its JSON.
MissingFile == [kind |-> "missing", tree |-> EmptyTree]

MalformedFile == [kind |-> "malformed", tree |-> EmptyTree]

\* The tables a default-constructed ConfigurationManager has: mappings_ gives
\* a yaml key its json_path and validation rules, presets_ gives a preset name
\* its settings.  parameter-mappings.yaml declares both.
NoMappings == [k \in {} |-> Absent]

NoPresets == [n \in {} |-> Absent]

NoMappingsFile == [mappings |-> NoMappings, presets |-> NoPresets]

\* No calibration has been asked for: the configuration file as it stands.
NoFile == [focal |-> <<0, 1>>, angles |-> <<0, 0>>, written |-> "none"]

OldConfig == [focal |-> <<6, 1>>, angles |-> <<0, 0>>, written |-> "old"]

NoInput ==
    [initial_velocity_mph |-> 0, vertical_launch_angle_deg |-> 0,
     horizontal_launch_angle_deg |-> 0, backspin_rpm |-> 0, sidespin_rpm |-> 0]

NoResult == [calculation_successful |-> FALSE, error_message |-> "", carry_distance_yards |-> 0]

\* No trajectory has been asked for.
\* A std::string is the sequence of its characters; this one stands for a key
\* that no tier holds.
NoString == <<"<absent>">>

\* No typed getter has been called.
\* No output tensor is being post-processed.
\* ExportEffectiveConfig has not been called: the output file is as it was.
ExportIdle ==
    /\ exportOk = "none"
    /\ exportFormat = "none"
    /\ outputWritten = FALSE
    /\ outputFile = EmptyTree

YoloIdle ==
    /\ yoloPc = "idle"
    /\ input_width = 640
    /\ input_height = 640
    /\ num_classes = 1
    /\ is_single_class_model = TRUE
    /\ output_size = 0
    /\ safe_predictions = 0
    /\ predIdx = 0
    /\ maxRead = -1

CoercionIdle ==
    /\ stored = NoString
    /\ default_int = 0
    /\ default_float = <<0, 1>>
    /\ default_bool = FALSE
    /\ called = {}
    /\ intResult = 0
    /\ floatResult = <<0, 1>>
    /\ boolResult = FALSE

TrajectoryIdle ==
    /\ trajPc = "idle"
    /\ input = NoInput
    /\ absOverload = "double"
    /\ carryResult = NoResult
    /\ fullTrajectory = "none"
    /\ libraryCalls = 0

CalibrationIdle ==
    /\ calPc = "idle"
    /\ kNumberPicturesForFocalLengthAverage = 5
    /\ kNumberOfCalibrationFailuresToTolerate = 2
    /\ calI = 0 /\ number_failures = 0 /\ number_samples = 0
    /\ average_focal_length = <<0, 1>> /\ camera_angles = <<0, 0>>
    /\ treeValues = OldConfig /\ putResults = <<>>
    /\ backupFile = NoFile /\ configFile = OldConfig
    /\ calResult = "none" /\ calFailure = "none"
    /\ imagesTaken = 0 /\ successes = 0 /\ successSum = 0

\* No preprocessing thread pool has been built.
Workers == {1, 2}

\* The value of queue_mutex_ when no thread holds it.
Unlocked == 0

PoolIdle ==
    /\ stop_ = FALSE /\ tasks_ = 0 /\ queue_mutex_ = Unlocked
    /\ workerPc = [w \in Workers |-> "unborn"]
    /\ ownerPc = "none" /\ batches = 0

\* The threads that share the detector, and the detector as constructed.
DetectThreads == {1, 2}

NoCall == 0

DetectIdle ==
    /\ input_buffer_in_use = FALSE /\ letterboxOf = NoCall
    /\ total_inferences_ = 0 /\ avg_inference_time_ms_ = <<0, 1>>
    /\ detectPc = [t \in DetectThreads |-> "idle"]
    /\ heldBuffer = [t \in DetectThreads |-> "none"]
    /\ metricsArg = [t \in DetectThreads |-> FALSE]
    /\ inference_ms = [t \in DetectThreads |-> 0]
    /\ prev_avg = [t \in DetectThreads |-> <<0, 1>>]
    /\ usedParams = [t \in DetectThreads |-> NoCall]
    /\ callsMade = [t \in DetectThreads |-> 0]
    /\ detectExit = [t \in DetectThreads |-> "none"]
    /\ doneCount = 0 /\ doneSum = 0

\* No image is being letterboxed.
NoParams == [scale |-> <<0, 1>>, x_offset |-> 0, y_offset |-> 0]

NoPoint == [x |-> <<0, 1>>, y |-> <<0, 1>>]

LetterboxIdle ==
    /\ lbPc = "idle" /\ image = [cols |-> 0, rows |-> 0]
    /\ input_size = [input_width |-> 640, input_height |-> 640]
    /\ letterbox_params_ = NoParams
    /\ srcPoint = [x |-> 0, y |-> 0] /\ tensorPoint = NoPoint /\ origPoint = NoPoint

\* NonMaxSuppression is not running.
DetectorIdle ==
    /\ nms_threshold = <<2, 5>> /\ nmsPc = "idle" /\ detections = <<>>
    /\ suppressed = <<>> /\ nmsI = 0 /\ nmsResult = <<>> /\ keptIdx = <<>>

\* No thread is inside the ConfigurationManager.
NoValue == [key |-> <<>>, value |-> Absent]

ThreadsIdle ==
    /\ config_mutex_ = "free" /\ reloadPc = "idle" /\ getPc = "idle" /\ getKey = <<>>
    /\ observed = NoValue /\ preValues = EmptyTree

\* The configuration store before Initialize, with no file on disk.
ConfigIdle ==
    /\ json_config_ = EmptyTree /\ yaml_config_ = EmptyTree
    /\ cli_overrides_ = EmptyTree /\ mappings_ = NoMappings
    /\ sysFile = MissingFile /\ userFile = MissingFile /\ initOk = "none"
    /\ sysTier = EmptyTree /\ userTier = EmptyTree /\ reloaded = FALSE
    /\ presets_ = NoPresets /\ mappingsFile = NoMappingsFile
    /\ validation_errors_ = <<>> /\ validateResult = "none" /\ presetOk = "none"
    /\ ThreadsIdle

(***************************************************************************)
(* Camera messages: RPiCamApp::MsgType has RequestComplete, Timeout and    *)
(* Quit; "Other" stands for any value that is none of the three.           *)
(***************************************************************************)
MsgTypes == {"RequestComplete", "Timeout", "Quit", "Other"}

NoMsg == [type |-> "none", frame |-> 0]

FlightCameraState ==
    {"kUninitialized", "kWaitingForFirstPrimingPulseGroup",
     "kWaitingForFirstPrimingTimeEnd", "kWaitingForPreImageTrigger",
     "kWaitingForPreImageFlush", "kWaitingForSecondPrimingPulseGroup",
     "kWaitingForSecondPrimingTimeEnd", "kWaitingForFinalImageTrigger",
     "kWaitingForFinalImageFlush", "kFinalImageReceived"}

CameraModels == {"PiGSCam", "InnoMakerIMX296GS_Mono"}

\* An empty cv::Mat; a deep copy of a frame; a header over the library's buffer.
EmptyImg == [kind |-> "empty", frame |-> 0]
CloneOf(f) == [kind |-> "copy", frame |-> f]
ViewOf(f) == [kind |-> "view", frame |-> f]

kPauseToSetUpInnoMakerExternalTriggerMilliseconds == 1

\* Mutant: the quiesce time without the extra pulse period.
kQuiesceTimeMs_NoExtraPulse ==
    kNumberPrimingPulses * (1000 \div kPrimingPulseFPS)
      + (IF kSystemSlot2CameraType = "InnoMakerIMX296GS_Mono"
           THEN kPauseToSetUpInnoMakerExternalTriggerMilliseconds ELSE 0)

\* libcamera_jpeg.cpp:120-127.  The division is C++ integer division.
kQuiesceTimeMs ==
    (kNumberPrimingPulses + 1) * (1000 \div kPrimingPulseFPS)
      + (IF kSystemSlot2CameraType = "InnoMakerIMX296GS_Mono"
           THEN kPauseToSetUpInnoMakerExternalTriggerMilliseconds ELSE 0)

\* duration_cast<milliseconds>(timeOfCurrentTrigger - timeOfFirstTrigger).count():
\* the clock of the model counts whole milliseconds, on which the cast is exact.
TimeLapsed(t0) == now - t0

\* SetExternalTrigger(flag): the calls it makes, and the flag after it.
SetExternalTriggerOps(flag) ==
    IF ~flag /\ kSystemSlot2CameraType = "InnoMakerIMX296GS_Mono"
      THEN <<"imx296_trigger">> ELSE <<>>

SetExternalTriggerFlag(flag) ==
    IF ~flag /\ kSystemSlot2CameraType = "InnoMakerIMX296GS_Mono" THEN TRUE ELSE flag

\* BufferReadSync r(&app, buffer): acquired by the constructor, released by the
\* destructor when the enclosing block is left, whichever way it is left.
BufferReadSyncScope(body) == <<"BufferReadSync">> \o body \o <<"~BufferReadSync">>

\* Whether a read-sync is still alive after a step that made the calls o.
RECURSIVE SyncBalance(_)
SyncBalance(o) ==
    IF o = <<>> THEN 0
    ELSE (IF Head(o) = "BufferReadSync" THEN 1
          ELSE IF Head(o) = "~BufferReadSync" THEN -1 ELSE 0) + SyncBalance(Tail(o))

\* app.StartCamera() / app.StopCamera() among the calls o, applied to `started`.
RECURSIVE CameraAfter(_, _)
CameraAfter(o, started) ==
    IF o = <<>> THEN started
    ELSE CameraAfter(Tail(o),
                     IF Head(o) = "StartCamera" THEN TRUE
                     ELSE IF Head(o) = "StopCamera" THEN FALSE ELSE started)

RECURSIVE EncoderAfter(_, _)
EncoderAfter(o, started) ==
    IF o = <<>> THEN started
    ELSE EncoderAfter(Tail(o),
                      IF Head(o) = "StartEncoder" THEN TRUE
                      ELSE IF Head(o) = "StopEncoder" THEN FALSE ELSE started)

(***************************************************************************)
(* ball_flight_camera_event_loop: the cases of switch (state).  Each gives *)
(* what the case leaves behind: the next state, whether it stamps          *)
(* timeOfFirstTrigger, return_status, returnImg, the calls made on app,    *)
(* the external-trigger flag, and whether it leaves by `break` or by       *)
(* `return false`.                                                         *)
(***************************************************************************)
Outcome(st, stamp, rs, img, o, flag, exit) ==
    [state |-> st, stamp |-> stamp, return_status |-> rs, returnImg |-> img,
     ops |-> o, flag |-> flag, exit |-> exit]

Stay(st, o) ==
    Outcome(st, FALSE, return_status, returnImg, o,
            innomaker_first_external_trigger_is_set, "break")

\* case kWaitingForFinalImageTrigger
CaseFinalImageTrigger == Stay("kWaitingForFinalImageFlush", <<>>)

\* Mutant: returnImg wraps the library's buffer instead of cloning it
\* (the assignment the source comments out at line 245).
CaseFinalImageFlush_NoClone(f, streamOk, imageOk) ==
    IF ~streamOk
      THEN Outcome(state, FALSE, return_status, returnImg, <<"StopCamera">>,
                   innomaker_first_external_trigger_is_set, "return false")
    ELSE IF ~imageOk
      THEN Outcome(state, FALSE, return_status, returnImg,
                   <<"StopCamera">> \o BufferReadSyncScope(<<>>),
                   innomaker_first_external_trigger_is_set, "return false")
    ELSE Outcome("kFinalImageReceived", FALSE, TRUE, ViewOf(f),
                 <<"StopCamera">> \o BufferReadSyncScope(<<>>),
                 innomaker_first_external_trigger_is_set, "break")

\* Mutant: the read-sync is released by hand at the end of the case, and the
\* early return for a null image forgets it.
CaseFinalImageFlush_LeakOnNullImage(f, streamOk, imageOk) ==
    IF ~streamOk
      THEN Outcome(state, FALSE, return_status, returnImg, <<"StopCamera">>,
                   innomaker_first_external_trigger_is_set, "return false")
    ELSE IF ~imageOk
      THEN Outcome(state, FALSE, return_status, returnImg,
                   <<"StopCamera", "BufferReadSync">>,
                   innomaker_first_external_trigger_is_set, "return false")
    ELSE Outcome("kFinalImageReceived", FALSE, TRUE, CloneOf(f),
                 <<"StopCamera">> \o BufferReadSyncScope(<<"clone">>),
                 innomaker_first_external_trigger_is_set, "break")

\* case kWaitingForFinalImageFlush: f is the frame of the message being
\* processed, streamOk whether app.ViewfinderStream() is non-null, imageOk whether
\* mem[0].data() is non-null.
CaseFinalImageFlush(f, streamOk, imageOk) ==
    IF ~streamOk
      THEN Outcome(state, FALSE, return_status, returnImg, <<"StopCamera">>,
                   innomaker_first_external_trigger_is_set, "return false")
    ELSE IF ~imageOk
      THEN Outcome(state, FALSE, return_status, returnImg,
                   <<"StopCamera">> \o BufferReadSyncScope(<<>>),
                   innomaker_first_external_trigger_is_set, "return false")
    ELSE Outcome("kFinalImageReceived", FALSE, TRUE, CloneOf(f),
                 <<"StopCamera">> \o BufferReadSyncScope(<<"clone">>),
                 innomaker_first_external_trigger_is_set, "break")

\* case kUninitialized: case kFinalImageReceived
CaseInvalid ==
    Outcome(state, FALSE, FALSE, returnImg, <<>>,
            innomaker_first_external_trigger_is_set, "break")

\* case kWaitingForFirstPrimingPulseGroup
CaseFirstPrimingPulseGroup ==
    Outcome("kWaitingForFirstPrimingTimeEnd", TRUE, return_status, returnImg,
            SetExternalTriggerOps(innomaker_first_external_trigger_is_set),
            SetExternalTriggerFlag(innomaker_first_external_trigger_is_set), "break")

\* Mutant: the quiesce test of the second priming group (half the time).
PrimingTimeEndTarget_HalfQuiesce(timeLapsed) ==
    IF timeLapsed < kQuiesceTimeMs \div 2 THEN "kWaitingForFirstPrimingTimeEnd"
    ELSE IF ~kUsePreImageSubtraction
      THEN (IF ~kCameraRequiresFlushPulse THEN "kWaitingForFinalImageFlush"
            ELSE "kWaitingForFinalImageTrigger")
    ELSE "kWaitingForPreImageTrigger"

\* Mutant: the flush-pulse test inverted.
PrimingTimeEndTarget_FlushInverted(timeLapsed) ==
    IF timeLapsed < kQuiesceTimeMs THEN "kWaitingForFirstPrimingTimeEnd"
    ELSE IF ~kUsePreImageSubtraction
      THEN (IF kCameraRequiresFlushPulse THEN "kWaitingForFinalImageFlush"
            ELSE "kWaitingForFinalImageTrigger")
    ELSE "kWaitingForPreImageTrigger"

\* case kWaitingForFirstPrimingTimeEnd: the state after a trigger received
\* timeLapsed milliseconds after the first one.
PrimingTimeEndTarget(timeLapsed) ==
    IF timeLapsed < kQuiesceTimeMs THEN "kWaitingForFirstPrimingTimeEnd"
    ELSE IF ~kUsePreImageSubtraction
      THEN (IF ~kCameraRequiresFlushPulse THEN "kWaitingForFinalImageFlush"
            ELSE "kWaitingForFinalImageTrigger")
    ELSE "kWaitingForPreImageTrigger"

CaseFirstPrimingTimeEnd == Stay(PrimingTimeEndTarget(TimeLapsed(timeOfFirstTrigger)), <<>>)

\* case kWaitingForPreImageTrigger
CasePreImageTrigger(streamOk) ==
    IF ~streamOk
      THEN Outcome(state, FALSE, FALSE, returnImg, <<"StopCamera">>,
                   innomaker_first_external_trigger_is_set, "break")
      ELSE Stay("kWaitingForPreImageFlush", <<>>)

\* Mutant: the pre-image flush leads into the second priming group.
CasePreImageFlush_SecondPriming == Stay("kWaitingForSecondPrimingPulseGroup", <<>>)

\* case kWaitingForPreImageFlush (the buffer read is commented out in the source)
CasePreImageFlush == Stay("kWaitingForFinalImageTrigger", <<>>)

\* case kWaitingForSecondPrimingPulseGroup
CaseSecondPrimingPulseGroup ==
    Outcome("kWaitingForSecondPrimingTimeEnd", TRUE, return_status, returnImg, <<>>,
            innomaker_first_external_trigger_is_set, "break")

\* case kWaitingForSecondPrimingTimeEnd
CaseSecondPrimingTimeEnd ==
    Stay(IF TimeLapsed(timeOfFirstTrigger) < kQuiesceTimeMs \div 2
           THEN "kWaitingForSecondPrimingTimeEnd"
           ELSE "kWaitingForFinalImageTrigger", <<>>)

FlightSwitch(f, streamOk, imageOk) ==
    CASE state = "kWaitingForFinalImageTrigger" -> CaseFinalImageTrigger
      [] state = "kWaitingForFinalImageFlush" -> CaseFinalImageFlush(f, streamOk, imageOk)
      [] state \in {"kUninitialized", "kFinalImageReceived"} -> CaseInvalid
      [] state = "kWaitingForFirstPrimingPulseGroup" -> CaseFirstPrimingPulseGroup
      [] state = "kWaitingForFirstPrimingTimeEnd" -> CaseFirstPrimingTimeEnd
      [] state = "kWaitingForPreImageTrigger" -> CasePreImageTrigger(streamOk)
      [] state = "kWaitingForPreImageFlush" -> CasePreImageFlush
      [] state = "kWaitingForSecondPrimingPulseGroup" -> CaseSecondPrimingPulseGroup
      [] state = "kWaitingForSecondPrimingTimeEnd" -> CaseSecondPrimingTimeEnd

\* What the flight loop's locals and the still/watcher fields keep when untouched.
flightLocals == <<state, switched, timeOfFirstTrigger, return_status,
                  innomaker_first_external_trigger_is_set, advanceFrame>>
flightConsts == <<kSystemSlot2CameraType, kUsePreImageSubtraction,
                  kCameraRequiresFlushPulse, kNumberPrimingPulses, kPrimingPulseFPS>>
stillLocals == <<cameraConfig, start_time, optionsTimeout>>

\* The step's calls o take effect on the camera, the encoder and the read-sync.
Apply(o) ==
    /\ ops' = o
    /\ cameraStarted' = CameraAfter(o, cameraStarted)
    /\ encoderStarted' = EncoderAfter(o, encoderStarted)
    /\ syncHeld' = (SyncBalance(o) > 0)

\* lines 94-154: options, OpenCamera, ConfigureViewfinder, StartCamera, the locals.
FlightStart ==
    /\ loop = "flight" /\ pc = "start"
    /\ Apply(<<"OpenCamera", "ConfigureViewfinder", "StartCamera">>
               \o SetExternalTriggerOps(FALSE))
    /\ cameraConfig' = "viewfinder"
    /\ timeOfFirstTrigger' = now
    /\ state' = "kWaitingForFirstPrimingPulseGroup"
    /\ innomaker_first_external_trigger_is_set' = FALSE
    /\ return_status' = TRUE
    /\ pc' = "loop"
    /\ UNCHANGED <<notCamera, loop, result, golf_sim_running_, now, msg, nframes, returnImg,
                   switched, advanceFrame, flightConsts, start_time, optionsTimeout,
                   motion_detected>>

\* lines 156-161 and 403-405: the loop head finds the flag down or return_status false.
FlightCancelOps == <<>>

FlightCancel ==
    /\ loop = "flight" /\ pc = "loop"
    /\ ~golf_sim_running_ \/ return_status = FALSE
    /\ Apply(FlightCancelOps)
    /\ return_status' = FALSE
    /\ pc' = "returned"
    /\ result' = FALSE
    /\ UNCHANGED <<notCamera, loop, golf_sim_running_, now, msg, nframes, returnImg, state, switched,
                   timeOfFirstTrigger, innomaker_first_external_trigger_is_set,
                   advanceFrame, flightConsts, stillLocals, motion_detected>>

\* Mutant: the restart of the other two loops, without the re-configure.
FlightTimeoutOps_NoConfigure == <<"StopCamera", "StartCamera">>

\* lines 164-173
FlightTimeoutOps == <<"StopCamera", "ConfigureViewfinder", "StartCamera">>

FlightTimeout ==
    /\ loop = "flight" /\ pc = "loop"
    /\ golf_sim_running_ /\ return_status
    /\ msg' = [type |-> "Timeout", frame |-> 0]
    /\ Apply(FlightTimeoutOps)
    /\ cameraConfig' = "viewfinder"
    /\ UNCHANGED <<notCamera, loop, pc, result, golf_sim_running_, now, nframes, returnImg,
                   flightLocals, flightConsts, start_time, optionsTimeout,
                   motion_detected>>

\* Mutant: Quit reported as a failure, as still_image_event_loop does.
FlightQuitResult_False == FALSE

\* lines 175-178
FlightQuitResult == TRUE

FlightQuit ==
    /\ loop = "flight" /\ pc = "loop"
    /\ golf_sim_running_ /\ return_status
    /\ msg' = [type |-> "Quit", frame |-> 0]
    /\ Apply(<<>>)
    /\ pc' = "returned"
    /\ result' = FlightQuitResult
    /\ UNCHANGED <<notCamera, loop, golf_sim_running_, now, nframes, returnImg, flightLocals,
                   flightConsts, stillLocals, motion_detected>>

\* lines 179-180: throw std::runtime_error("Unrecognised message!")
FlightUnrecognisedPc == "thrown"

FlightUnrecognised ==
    /\ loop = "flight" /\ pc = "loop"
    /\ golf_sim_running_ /\ return_status
    /\ msg' = [type |-> "Other", frame |-> 0]
    /\ Apply(<<>>)
    /\ pc' = FlightUnrecognisedPc
    /\ UNCHANGED <<notCamera, loop, result, golf_sim_running_, now, nframes, returnImg,
                   flightLocals, flightConsts, stillLocals, motion_detected>>

\* lines 181-401: a RequestComplete goes through switch (state); the for
\* condition state != kFinalImageReceived is tested right after the break.
FlightRequestComplete ==
    /\ loop = "flight" /\ pc = "loop"
    /\ golf_sim_running_ /\ return_status
    /\ nframes < MaxFrames
    /\ \E streamOk \in BOOLEAN, imageOk \in BOOLEAN :
         LET f == nframes + 1
             r == FlightSwitch(f, streamOk, imageOk)
         IN /\ msg' = [type |-> "RequestComplete", frame |-> f]
            /\ nframes' = f
            /\ switched' = state
            /\ Apply(r.ops)
            /\ state' = r.state
            /\ timeOfFirstTrigger' = IF r.stamp THEN now ELSE timeOfFirstTrigger
            /\ return_status' = r.return_status
            /\ returnImg' = r.returnImg
            /\ innomaker_first_external_trigger_is_set' = r.flag
            /\ advanceFrame' = IF state = "kWaitingForFirstPrimingTimeEnd"
                                    /\ r.state # "kWaitingForFirstPrimingTimeEnd"
                                 THEN f ELSE advanceFrame
            /\ IF r.exit = "return false"
                 THEN pc' = "returned" /\ result' = FALSE
               ELSE IF r.state = "kFinalImageReceived"
                 THEN pc' = "returned" /\ result' = r.return_status
               ELSE pc' = "loop" /\ result' = result
    /\ UNCHANGED <<notCamera, loop, golf_sim_running_, now, flightConsts, stillLocals,
                   motion_detected>>

(***************************************************************************)
(* ball_watcher_event_loop                                                 *)
(***************************************************************************)
\* ball_watcher.cpp:56-84
WatcherStart ==
    /\ loop = "watcher" /\ pc = "start"
    /\ Apply(<<"OpenCamera", "ConfigureVideo", "StartEncoder", "StartCamera">>)
    /\ cameraConfig' = "video"
    /\ start_time' = now
    /\ motion_detected' = FALSE
    /\ pc' = "loop"
    /\ UNCHANGED <<notCamera, loop, result, golf_sim_running_, now, msg, nframes, returnImg,
                   flightLocals, flightConsts, optionsTimeout>>

\* ball_watcher.cpp:88-92
WatcherCancelOps == <<"StopCamera", "StopEncoder">>

WatcherCancel ==
    /\ loop = "watcher" /\ pc = "loop"
    /\ ~golf_sim_running_
    /\ Apply(WatcherCancelOps)
    /\ pc' = "returned"
    /\ result' = FALSE
    /\ UNCHANGED <<notCamera, loop, golf_sim_running_, now, msg, nframes, returnImg, flightLocals,
                   flightConsts, stillLocals, motion_detected>>

\* ball_watcher.cpp:95-102
WatcherTimeoutOps == <<"StopCamera", "StartCamera">>

WatcherTimeout ==
    /\ loop = "watcher" /\ pc = "loop"
    /\ golf_sim_running_
    /\ msg' = [type |-> "Timeout", frame |-> 0]
    /\ Apply(WatcherTimeoutOps)
    /\ UNCHANGED <<notCamera, loop, pc, result, golf_sim_running_, now, nframes, returnImg,
                   flightLocals, flightConsts, stillLocals, motion_detected>>

\* ball_watcher.cpp:104-105
WatcherQuit ==
    /\ loop = "watcher" /\ pc = "loop"
    /\ golf_sim_running_
    /\ msg' = [type |-> "Quit", frame |-> 0]
    /\ Apply(<<>>)
    /\ pc' = "returned"
    /\ result' = motion_detected
    /\ UNCHANGED <<notCamera, loop, golf_sim_running_, now, nframes, returnImg, flightLocals,
                   flightConsts, stillLocals, motion_detected>>

\* ball_watcher.cpp:106-107
WatcherUnrecognisedPc == "thrown"

WatcherUnrecognised ==
    /\ loop = "watcher" /\ pc = "loop"
    /\ golf_sim_running_
    /\ msg' = [type |-> "Other", frame |-> 0]
    /\ Apply(<<>>)
    /\ pc' = WatcherUnrecognisedPc
    /\ UNCHANGED <<notCamera, loop, result, golf_sim_running_, now, nframes, returnImg,
                   flightLocals, flightConsts, stillLocals, motion_detected>>

\* ball_watcher.cpp:109-140: encoded is what app.EncodeBuffer returned, getStatus
\* and mdResult what post_process_metadata.Get("motion_detect.result", mdResult) gave.
WatcherMotion_AnyResult(getStatus, mdResult) == getStatus = 0

WatcherMotion(getStatus, mdResult) == getStatus = 0 /\ mdResult

\* What the metadata of the completed request says after Process.
MotionResult(getStatus, mdResult) ==
    IF getStatus # 0 THEN "absent" ELSE IF mdResult THEN "moved" ELSE "still"

WatcherRequestComplete ==
    /\ loop = "watcher" /\ pc = "loop"
    /\ golf_sim_running_
    /\ nframes < MaxFrames
    /\ \E encoded \in BOOLEAN, getStatus \in {0, -1}, mdResult \in BOOLEAN :
         /\ msg' = [type |-> "RequestComplete", frame |-> nframes + 1,
                     motion_detect_result |-> MotionResult(getStatus, mdResult)]
         /\ nframes' = nframes + 1
         /\ start_time' = IF encoded THEN start_time ELSE now
         /\ IF WatcherMotion(getStatus, mdResult)
              THEN /\ Apply(<<"EncodeBuffer", "Process", "StopCamera", "StopEncoder">>)
                   /\ motion_detected' = TRUE
                   /\ pc' = "returned"
                   /\ result' = TRUE
              ELSE /\ Apply(<<"EncodeBuffer", "Process">>)
                   /\ UNCHANGED <<motion_detected, pc, result>>
    /\ UNCHANGED <<notCamera, loop, golf_sim_running_, now, returnImg, flightLocals, flightConsts,
                   cameraConfig, optionsTimeout>>

(***************************************************************************)
(* still_image_event_loop                                                  *)
(***************************************************************************)
\* libcamera_jpeg.cpp:414-423
StillStart ==
    /\ loop = "still" /\ pc = "start"
    /\ Apply(<<"StartCamera">>)
    /\ start_time' = now
    /\ pc' = "loop"
    /\ UNCHANGED <<notCamera, loop, result, golf_sim_running_, now, msg, nframes, returnImg,
                   flightLocals, flightConsts, cameraConfig, optionsTimeout,
                   motion_detected>>

\* libcamera_jpeg.cpp:427-430
StillCancelOps == <<"StopCamera">>

StillCancel ==
    /\ loop = "still" /\ pc = "loop"
    /\ ~golf_sim_running_
    /\ Apply(StillCancelOps)
    /\ pc' = "returned"
    /\ result' = FALSE
    /\ UNCHANGED <<notCamera, loop, golf_sim_running_, now, msg, nframes, returnImg, flightLocals,
                   flightConsts, stillLocals, motion_detected>>

\* libcamera_jpeg.cpp:438-447
StillTimeoutOps == <<"StopCamera", "StartCamera">>

StillTimeout ==
    /\ loop = "still" /\ pc = "loop"
    /\ golf_sim_running_
    /\ msg' = [type |-> "Timeout", frame |-> 0]
    /\ Apply(StillTimeoutOps)
    /\ UNCHANGED <<notCamera, loop, pc, result, golf_sim_running_, now, nframes, returnImg,
                   flightLocals, flightConsts, stillLocals, motion_detected>>

\* libcamera_jpeg.cpp:448-449
StillQuit ==
    /\ loop = "still" /\ pc = "loop"
    /\ golf_sim_running_
    /\ msg' = [type |-> "Quit", frame |-> 0]
    /\ Apply(<<>>)
    /\ pc' = "returned"
    /\ result' = FALSE
    /\ UNCHANGED <<notCamera, loop, golf_sim_running_, now, nframes, returnImg, flightLocals,
                   flightConsts, stillLocals, motion_detected>>

\* Mutant: the unrecognised message is skipped and the loop goes on.
StillUnrecognisedPc_Ignored == "loop"

\* libcamera_jpeg.cpp:450-451
StillUnrecognisedPc == "thrown"

StillUnrecognised ==
    /\ loop = "still" /\ pc = "loop"
    /\ golf_sim_running_
    /\ msg' = [type |-> "Other", frame |-> 0]
    /\ Apply(<<>>)
    /\ pc' = StillUnrecognisedPc
    /\ UNCHANGED <<notCamera, loop, result, golf_sim_running_, now, nframes, returnImg,
                   flightLocals, flightConsts, stillLocals, motion_detected>>

\* libcamera_jpeg.cpp:453-505: app.ViewfinderStream() and app.StillStream() are
\* non-null for the stream app is configured with.
StillRequestComplete ==
    /\ loop = "still" /\ pc = "loop"
    /\ golf_sim_running_
    /\ nframes < MaxFrames
    /\ LET f == nframes + 1
       IN /\ msg' = [type |-> "RequestComplete", frame |-> f]
          /\ nframes' = f
          /\ IF cameraConfig = "viewfinder"
               THEN IF optionsTimeout # 0 /\ now - start_time > optionsTimeout
                      THEN /\ Apply(<<"StopCamera", "Teardown", "ConfigureStill",
                                      "StartCamera">>)
                           /\ cameraConfig' = "still"
                           /\ UNCHANGED <<returnImg, pc, result>>
                      ELSE /\ Apply(<<"ShowPreview">>)
                           /\ UNCHANGED <<cameraConfig, returnImg, pc, result>>
             ELSE IF cameraConfig = "still"
               THEN /\ Apply(<<"StopCamera">> \o BufferReadSyncScope(<<"clone">>))
                    /\ returnImg' = CloneOf(f)
                    /\ pc' = "returned"
                    /\ result' = TRUE
                    /\ UNCHANGED cameraConfig
             ELSE /\ Apply(<<>>)
                  /\ UNCHANGED <<cameraConfig, returnImg, pc, result>>
    /\ UNCHANGED <<notCamera, loop, golf_sim_running_, now, flightLocals, flightConsts,
                   start_time, optionsTimeout, motion_detected>>

(***************************************************************************)
(* The environment of the loops.                                           *)
(***************************************************************************)
\* The steady clock advances while the loop waits in app.Wait().
Tick ==
    /\ pc = "loop"
    /\ now < MaxTime
    /\ now' = now + 1
    /\ UNCHANGED <<notCamera, loop, pc, result, golf_sim_running_, msg, nframes, ops, syncHeld,
                   cameraStarted, encoderStarted, returnImg, flightLocals, flightConsts,
                   stillLocals, motion_detected>>

\* Another thread (or the signal handler) clears the process-wide running flag.
StopRunning ==
    /\ pc \in {"start", "loop"}
    /\ golf_sim_running_
    /\ golf_sim_running_' = FALSE
    /\ UNCHANGED <<notCamera, loop, pc, result, now, msg, nframes, ops, syncHeld,
                   cameraStarted, encoderStarted, returnImg, flightLocals, flightConsts,
                   stillLocals, motion_detected>>

PrimingPulseChoices == {1, 3}
PrimingFPSChoices == {1000, 2000}
TimeoutChoices == {0, 2}

InitCamera ==
    /\ loop \in {"flight", "watcher", "still"}
    /\ pc = "start"
    /\ result = "none"
    /\ golf_sim_running_ = TRUE
    /\ now = 0
    /\ msg = NoMsg
    /\ nframes = 0
    /\ ops = <<>>
    /\ syncHeld = FALSE
    /\ cameraStarted = FALSE
    /\ encoderStarted = FALSE
    /\ returnImg = EmptyImg
    /\ state = "kWaitingForFirstPrimingPulseGroup"
    /\ switched = "kUninitialized"
    /\ timeOfFirstTrigger = 0
    /\ return_status = TRUE
    /\ innomaker_first_external_trigger_is_set = FALSE
    /\ advanceFrame = 0
    /\ IF loop = "flight"
         THEN /\ kSystemSlot2CameraType \in CameraModels
              /\ kUsePreImageSubtraction \in BOOLEAN
              /\ kCameraRequiresFlushPulse \in BOOLEAN
              /\ kNumberPrimingPulses \in PrimingPulseChoices
              /\ kPrimingPulseFPS \in PrimingFPSChoices
         ELSE /\ kSystemSlot2CameraType = "PiGSCam"
              /\ kUsePreImageSubtraction = FALSE
              /\ kCameraRequiresFlushPulse = FALSE
              /\ kNumberPrimingPulses = 1
              /\ kPrimingPulseFPS = 1000
    /\ IF loop = "still"
         THEN cameraConfig \in {"viewfinder", "still"} /\ optionsTimeout \in TimeoutChoices
         ELSE cameraConfig = "none" /\ optionsTimeout = 0
    /\ start_time = 0
    /\ motion_detected \in (IF loop = "watcher" THEN BOOLEAN ELSE {FALSE})
    /\ ConfigIdle
    /\ DetectorIdle
    /\ LetterboxIdle
    /\ DetectIdle
    /\ PoolIdle
    /\ CalibrationIdle
    /\ TrajectoryIdle
    /\ CoercionIdle
    /\ YoloIdle
    /\ ExportIdle

NextCamera ==
    \/ FlightStart \/ FlightCancel \/ FlightTimeout \/ FlightQuit
    \/ FlightUnrecognised \/ FlightRequestComplete
    \/ WatcherStart \/ WatcherCancel \/ WatcherTimeout \/ WatcherQuit
    \/ WatcherUnrecognised \/ WatcherRequestComplete
    \/ StillStart \/ StillCancel \/ StillTimeout \/ StillQuit
    \/ StillUnrecognised \/ StillRequestComplete
    \/ Tick \/ StopRunning

SpecCamera == InitCamera /\ [][NextCamera]_vars

\* No event loop is running: the state of the camera variables while only the
\* configuration is at work.
CameraIdle ==
    /\ loop = "none" /\ pc = "start" /\ result = "none"
    /\ golf_sim_running_ = TRUE /\ now = 0 /\ msg = NoMsg /\ nframes = 0
    /\ ops = <<>> /\ syncHeld = FALSE
    /\ cameraStarted = FALSE /\ encoderStarted = FALSE
    /\ returnImg = EmptyImg
    /\ state = "kWaitingForFirstPrimingPulseGroup" /\ switched = "kUninitialized"
    /\ timeOfFirstTrigger = 0 /\ return_status = TRUE
    /\ innomaker_first_external_trigger_is_set = FALSE /\ advanceFrame = 0
    /\ kSystemSlot2CameraType = "PiGSCam" /\ kUsePreImageSubtraction = FALSE
    /\ kCameraRequiresFlushPulse = FALSE
    /\ kNumberPrimingPulses = 1 /\ kPrimingPulseFPS = 1000
    /\ cameraConfig = "none" /\ optionsTimeout = 0 /\ start_time = 0
    /\ motion_detected = FALSE

(***************************************************************************)
(* ConfigurationManager (configuration_manager.h / .cpp).                  *)
(*                                                                         *)
(* json_config_ is the system file with the user file merged over it,      *)
(* cli_overrides_ the runtime overrides; yaml_config_ is declared and read  *)
(* by GetValue but no code loads it.  sysFile and userFile are the two      *)
(* files on disk: missing, malformed, or the tree read_json builds.         *)
(* sysTier and userTier are history variables: what the system file and    *)
(* the user file have each contributed to json_config_.                     *)
(***************************************************************************)
SystemValues == {"1"}
UserValues == {"2"}
CliValues == {"3", "4"}
Defaults == {"0"}

\* The trees read_json can build over Paths from a file whose strings are vs:
\* a node is a non-empty string, or an object (empty data) holding its members.
JsonTrees(vs) ==
    {t \in [Paths -> vs \cup {"", Absent}] :
        /\ WellFormed(t)
        /\ t[PresetKey] = Absent
        /\ t[<<"b">>] # ""
        /\ Has(t, <<"a", "b">>) <=> t[<<"a">>] = ""
        /\ t[<<"a", "b">>] # ""}

\* What the parser had built of a malformed file when it met the error:
\* nothing, or the member b.
PartialTrees(vs) == {EmptyTree} \cup {[EmptyTree EXCEPT ![<<"b">>] = v] : v \in vs}

FileContents(vs) ==
    {MissingFile}
       \cup {[kind |-> "malformed", tree |-> t] : t \in PartialTrees(vs)}
       \cup {[kind |-> "json", tree |-> t] : t \in JsonTrees(vs)}

\* Whatever exists is taken as read.
IsTree_Exists(file) == file.kind # "missing"

\* The file exists and read_json parses it.
IsTree(file) == file.kind = "json"

\* configuration_manager.cpp:15-32, the loop over the children of `from`
\* that are still to do.
RECURSIVE MergeChildren(_, _, _)
MergeChildren(from, to, todo) ==
    IF todo = {} THEN to
    ELSE LET p == CHOOSE q \in todo : TRUE
             merged == IF IsLeaf(from, p)
                          THEN [to EXCEPT ![p] = from[p]]
                       ELSE IF Has(to, p)
                          THEN MergeChildren(from, to, ChildrenOf(from, p))
                       ELSE CopySubtree(from, to, p)
         IN  MergeChildren(from, merged, todo \ {p})

merge_ptree(from, to) == MergeChildren(from, to, ChildrenOf(from, <<>>))

\* configuration_manager.cpp:337-353: the json_path the mapping table gives
\* the key, and the key itself when the table has no entry for it.
MapToJsonPath(yaml_key) ==
    IF yaml_key \in DOMAIN mappings_ /\ mappings_[yaml_key].json_path # <<>>
       THEN mappings_[yaml_key].json_path
       ELSE yaml_key

\* The tiers read in the wrong order: the merged files before the overrides.
GetValue_FilesFirst(key, default_value) ==
    IF GetFromTree(json_config_, MapToJsonPath(key)) # Absent
       THEN GetFromTree(json_config_, MapToJsonPath(key))
    ELSE IF GetFromTree(cli_overrides_, key) # Absent
       THEN GetFromTree(cli_overrides_, key)
    ELSE default_value

\* configuration_manager.h:240-262, instantiated at std::string (GetString),
\* on the three trees it is given.
GetValueIn(cli, yaml, json, key, default_value) ==
    IF GetFromTree(cli, key) # Absent
       THEN GetFromTree(cli, key)
    ELSE IF GetFromTree(yaml, key) # Absent
       THEN GetFromTree(yaml, key)
    ELSE IF GetFromTree(json, MapToJsonPath(key)) # Absent
       THEN GetFromTree(json, MapToJsonPath(key))
    ELSE default_value

GetValue(key, default_value) ==
    GetValueIn(cli_overrides_, yaml_config_, json_config_, key, default_value)

\* configuration_manager.cpp:181-189.
HasKey(key) ==
    \/ GetFromTree(cli_overrides_, key) # Absent
    \/ GetFromTree(yaml_config_, key) # Absent
    \/ GetFromTree(json_config_, MapToJsonPath(key)) # Absent

\* configuration_manager.cpp:288-302.
GetValueSource(key) ==
    IF GetFromTree(cli_overrides_, key) # Absent THEN "cli"
    ELSE IF GetFromTree(yaml_config_, key) # Absent THEN "yaml"
    ELSE IF GetFromTree(json_config_, MapToJsonPath(key)) # Absent THEN "json"
    ELSE "not_found"

\* configuration_manager.h:273-276.
SetInTree(tree, path, value) == Put(tree, path, value)

\* The std::map Initialize is given: a value or Absent for each key.  The
\* loop at configuration_manager.cpp:125-127 walks it in key order.
KeyOrder == << <<"_preset">>, <<"a">>, <<"a", "b">> , <<"b">> >>

CliMaps == {m \in [Paths -> {"3", Absent}] : m[PresetKey] = Absent}

\* The overrides replace the tree instead of being put into it.
ApplyOverrides_Fresh(tree, cli, i) == [p \in Paths |-> cli[p]]

RECURSIVE ApplyOverrides(_, _, _)
ApplyOverrides(tree, cli, i) ==
    IF i > Len(KeyOrder) THEN tree
    ELSE ApplyOverrides(IF cli[KeyOrder[i]] # Absent
                           THEN SetInTree(tree, KeyOrder[i], cli[KeyOrder[i]])
                           ELSE tree,
                        cli, i + 1)

NoOverrides == [p \in Paths |-> Absent]

\* configuration_manager.cpp:195-219 on the tree yaml: the settings of the
\* preset, put into it one child of `settings` at a time; nothing when
\* presets_ has no such preset.
PresetFound(preset_name) == preset_name \in DOMAIN presets_

RECURSIVE PutSettings(_, _, _)
PutSettings(yaml, settings, i) ==
    IF i > Len(KeyOrder) THEN yaml
    ELSE PutSettings(IF KeyOrder[i] \in ChildrenOf(settings, <<>>)
                        THEN SetInTree(yaml, KeyOrder[i], settings[KeyOrder[i]])
                        ELSE yaml,
                     settings, i + 1)

ApplyPresetTo(yaml, preset_name) ==
    IF PresetFound(preset_name) THEN PutSettings(yaml, presets_[preset_name], 1) ELSE yaml

\* configuration_manager.cpp:63-138, started from the trees json and yaml and
\* (for the history) sys and user.  The mapping file is not read: LoadMappings
\* is private and nothing calls it.
InitializeFrom(json, yaml, sys, user, cli) ==
    IF sysFile.kind = "malformed"
       THEN /\ initOk' = "false"
            /\ json_config_' = json
            /\ yaml_config_' = yaml
            /\ sysTier' = sys /\ userTier' = user
            /\ UNCHANGED <<cli_overrides_, presetOk>>
    ELSE LET loaded == IsTree(sysFile)
             json1 == IF loaded THEN sysFile.tree ELSE json
             sys1 == IF loaded THEN sysFile.tree ELSE sys
             user1 == IF loaded THEN EmptyTree ELSE user
             json2 == IF IsTree(userFile) THEN merge_ptree(userFile.tree, json1) ELSE json1
             cli1 == ApplyOverrides(cli_overrides_, cli, 1)
             preset == GetValueIn(cli1, yaml, json2, PresetKey, "")
         IN  /\ initOk' = "true"
             /\ json_config_' = json2
             /\ sysTier' = sys1
             /\ userTier' = IF IsTree(userFile) THEN merge_ptree(userFile.tree, user1)
                                                 ELSE user1
             /\ cli_overrides_' = cli1
             /\ yaml_config_' = IF preset # "" THEN ApplyPresetTo(yaml, preset) ELSE yaml
             /\ presetOk' = IF preset = "" THEN presetOk
                            ELSE IF PresetFound(preset) THEN "true" ELSE "false"

Initialize ==
    /\ initOk = "none"
    /\ \E cli \in CliMaps :
          InitializeFrom(json_config_, yaml_config_, sysTier, userTier, cli)
    /\ UNCHANGED <<notConfig, thrVars, mappings_, sysFile, userFile, reloaded, presets_, mappingsFile,
                   validation_errors_, validateResult>>

\* configuration_manager.cpp:176-179.
SetOverride ==
    /\ \E key \in SettingKeys, value \in CliValues :
          cli_overrides_' = SetInTree(cli_overrides_, key, value)
    /\ UNCHANGED <<notConfig, thrVars, tblVars, json_config_, yaml_config_, mappings_, sysFile,
                   userFile, initOk, sysTier, userTier, reloaded>>

\* configuration_manager.cpp:304-314.
Reload ==
    /\ initOk # "none"
    /\ InitializeFrom(EmptyTree, EmptyTree, EmptyTree, EmptyTree, NoOverrides)
    /\ reloaded' = TRUE
    /\ UNCHANGED <<notConfig, thrVars, mappings_, sysFile, userFile, presets_, mappingsFile,
                   validation_errors_, validateResult>>

\* The files are edited between two loads.
WriteSystemFile ==
    /\ \E f \in FileContents(SystemValues) : f # sysFile /\ sysFile' = f
    /\ UNCHANGED <<notConfig, thrVars, tblVars, json_config_, yaml_config_, cli_overrides_, mappings_,
                   userFile, initOk, sysTier, userTier, reloaded>>

WriteUserFile ==
    /\ \E f \in FileContents(UserValues) : f # userFile /\ userFile' = f
    /\ UNCHANGED <<notConfig, thrVars, tblVars, json_config_, yaml_config_, cli_overrides_, mappings_,
                   sysFile, initOk, sysTier, userTier, reloaded>>

InitConfig ==
    /\ json_config_ = EmptyTree /\ yaml_config_ = EmptyTree
    /\ cli_overrides_ = EmptyTree /\ mappings_ = NoMappings
    /\ sysFile \in FileContents(SystemValues)
    /\ userFile \in FileContents(UserValues)
    /\ initOk = "none"
    /\ sysTier = EmptyTree /\ userTier = EmptyTree /\ reloaded = FALSE
    /\ presets_ = NoPresets /\ mappingsFile = NoMappingsFile
    /\ validation_errors_ = <<>> /\ validateResult = "none" /\ presetOk = "none"
    /\ ThreadsIdle
    /\ CameraIdle
    /\ DetectorIdle
    /\ LetterboxIdle
    /\ DetectIdle
    /\ PoolIdle
    /\ CalibrationIdle
    /\ TrajectoryIdle
    /\ CoercionIdle
    /\ YoloIdle
    /\ ExportIdle

NextConfig ==
    \/ Initialize
    \/ SetOverride
    \/ Reload
    \/ WriteSystemFile
    \/ WriteUserFile

SpecConfig == InitConfig /\ [][NextConfig]_vars

(***************************************************************************)
(* Presets and validation.  parameter-mappings.yaml declares, for a yaml   *)
(* key, its json_path and validation rules and, for a preset name, its     *)
(* settings.  LoadMappings (configuration_manager.cpp:316-335) is the only *)
(* code that reads the file into mappings_ and presets_; it is private and *)
(* has no caller, so both tables stay as constructed.                      *)
(***************************************************************************)
PresetNames == {"P"}

PresetValues == {"5"}

\* std::stof on the strings of the model.
NumericStrings == {"0", "1", "2", "3", "4", "5"}

StoF(value) ==
    CASE value = "0" -> 0 [] value = "1" -> 1 [] value = "2" -> 2
      [] value = "3" -> 3 [] value = "4" -> 4 [] value = "5" -> 5

\* A mapping file: key b may be "1" or "3" and at most 3; the preset P sets b
\* and the dotted key a.b.
DeclaredMappingsFile ==
    [mappings |-> [k \in {<<"b">>} |->
                     [json_path |-> <<>>, has_validation |-> TRUE,
                      has_enum |-> TRUE, enum |-> {"1", "3"},
                      has_min |-> FALSE, min |-> 0,
                      has_max |-> TRUE, max |-> 3,
                      has_pattern |-> FALSE, matching |-> {}]],
     presets |-> [n \in PresetNames |->
                     [k \in Paths |-> IF k \in {<<"b">>, <<"a", "b">>} THEN "5" ELSE Absent]]]

MappingFiles == {NoMappingsFile, DeclaredMappingsFile}

\* configuration_manager.cpp:442-507 against the table given: the entries
\* ValidateValue pushes for the key and value, none when it returns true.
ErrorsIn(table, key, value) ==
    IF key \notin DOMAIN table THEN <<>>
    ELSE LET m == table[key]
             entry(rule) == << [key |-> key, rule |-> rule] >>
         IN  IF ~m.has_validation THEN <<>>
             ELSE IF m.has_enum /\ value \notin m.enum THEN entry("not in allowed values")
             ELSE IF (m.has_min \/ m.has_max) /\ value \notin NumericStrings
                THEN entry("is not numeric")
             ELSE IF m.has_min /\ StoF(value) < m.min THEN entry("below minimum")
             ELSE IF m.has_max /\ StoF(value) > m.max THEN entry("above maximum")
             ELSE IF m.has_pattern /\ value \notin m.matching
                THEN entry("does not match pattern")
             ELSE <<>>

ValidateValue(key, value) == ErrorsIn(mappings_, key, value)

\* The loops of configuration_manager.cpp:226-239: ValidateValue on each child
\* of the root of the tree, with the data of that child.
RECURSIVE ValidateChildren(_, _)
ValidateChildren(tree, i) ==
    IF i > Len(KeyOrder) THEN <<>>
    ELSE (IF KeyOrder[i] \in ChildrenOf(tree, <<>>)
             THEN ValidateValue(KeyOrder[i], tree[KeyOrder[i]])
             ELSE <<>>)
         \o ValidateChildren(tree, i + 1)

\* configuration_manager.cpp:221-242.
ValidateConfiguration ==
    /\ validation_errors_' = ValidateChildren(yaml_config_, 1) \o ValidateChildren(cli_overrides_, 1)
    /\ validateResult' = IF validation_errors_' = <<>> THEN "true" ELSE "false"
    /\ UNCHANGED <<notConfig, thrVars, json_config_, yaml_config_, cli_overrides_, mappings_, sysFile,
                   userFile, initOk, sysTier, userTier, reloaded, presets_, mappingsFile,
                   presetOk>>

\* configuration_manager.cpp:195-219, called by the application.
ApplyPreset ==
    /\ \E preset_name \in PresetNames :
          /\ yaml_config_' = ApplyPresetTo(yaml_config_, preset_name)
          /\ presetOk' = IF PresetFound(preset_name) THEN "true" ELSE "false"
    /\ UNCHANGED <<notConfig, thrVars, json_config_, cli_overrides_, mappings_, sysFile, userFile,
                   initOk, sysTier, userTier, reloaded, presets_, mappingsFile,
                   validation_errors_, validateResult>>

\* The override maps that name the preset P.
PresetCliMaps == {m \in [Paths -> {"3", "P", Absent}] :
                    m[PresetKey] = "P" /\ \A k \in SettingKeys : m[k] # "P"}

\* Initialize with _preset=P among the overrides.
InitializeWithPreset ==
    /\ initOk = "none"
    /\ \E cli \in PresetCliMaps :
          InitializeFrom(json_config_, yaml_config_, sysTier, userTier, cli)
    /\ UNCHANGED <<notConfig, thrVars, mappings_, sysFile, userFile, reloaded, presets_, mappingsFile,
                   validation_errors_, validateResult>>

InitPreset ==
    /\ json_config_ = EmptyTree /\ yaml_config_ = EmptyTree
    /\ cli_overrides_ = EmptyTree /\ mappings_ = NoMappings
    /\ sysFile \in FileContents(SystemValues)
    /\ userFile \in FileContents(UserValues)
    /\ initOk = "none"
    /\ sysTier = EmptyTree /\ userTier = EmptyTree /\ reloaded = FALSE
    /\ presets_ = NoPresets /\ mappingsFile \in MappingFiles
    /\ validation_errors_ = <<>> /\ validateResult = "none" /\ presetOk = "none"
    /\ ThreadsIdle
    /\ CameraIdle
    /\ DetectorIdle
    /\ LetterboxIdle
    /\ DetectIdle
    /\ PoolIdle
    /\ CalibrationIdle
    /\ TrajectoryIdle
    /\ CoercionIdle
    /\ YoloIdle
    /\ ExportIdle

NextPreset ==
    \/ InitializeWithPreset
    \/ ApplyPreset
    \/ ValidateConfiguration
    \/ SetOverride
    \/ Reload

SpecPreset == InitPreset /\ [][NextPreset]_vars

(***************************************************************************)
(* Two threads on the one ConfigurationManager: one calls Reload, one      *)
(* calls GetString.  config_mutex_ is locked by GetValue                    *)
(* (configuration_manager.h:242) and SetOverride (configuration_manager.cpp *)
(* :177) and by nothing else, so each statement of Reload and of the        *)
(* Initialize it calls is a step the other thread can run between.          *)
(***************************************************************************)
storeVars == <<json_config_, yaml_config_, cli_overrides_, mappings_, sysFile, userFile,
               initOk, sysTier, userTier, reloaded, tblVars>>

\* configuration_manager.cpp:308-309: the two clear() calls, without the mutex.
ReloadClear ==
    /\ initOk # "none" /\ reloadPc = "idle"
    /\ json_config_' = EmptyTree /\ yaml_config_' = EmptyTree
    /\ sysTier' = EmptyTree /\ userTier' = EmptyTree
    /\ reloaded' = TRUE
    /\ preValues' = [k \in Paths |-> GetValue(k, "0")]
    /\ reloadPc' = "cleared"
    /\ UNCHANGED <<notConfig, cli_overrides_, mappings_, sysFile, userFile, initOk, tblVars,
                   config_mutex_, getPc, getKey, observed>>

\* configuration_manager.cpp:73-82: read_json into json_config_, without the mutex.
ReloadReadSystem ==
    /\ reloadPc = "cleared"
    /\ IF sysFile.kind = "malformed"
          THEN /\ initOk' = "false" /\ reloadPc' = "done"
               /\ UNCHANGED <<json_config_, sysTier>>
          ELSE /\ reloadPc' = "systemRead"
               /\ json_config_' = IF IsTree(sysFile) THEN sysFile.tree ELSE json_config_
               /\ sysTier' = IF IsTree(sysFile) THEN sysFile.tree ELSE sysTier
               /\ UNCHANGED initOk
    /\ UNCHANGED <<notConfig, yaml_config_, cli_overrides_, mappings_, sysFile, userFile,
                   userTier, reloaded, tblVars, config_mutex_, getPc, getKey, observed,
                   preValues>>

\* configuration_manager.cpp:85-102: merge_ptree into json_config_, without the mutex.
ReloadMergeUser ==
    /\ reloadPc = "systemRead"
    /\ json_config_' = IF IsTree(userFile) THEN merge_ptree(userFile.tree, json_config_)
                                            ELSE json_config_
    /\ userTier' = IF IsTree(userFile) THEN merge_ptree(userFile.tree, userTier) ELSE userTier
    /\ reloadPc' = "merged"
    /\ UNCHANGED <<notConfig, yaml_config_, cli_overrides_, mappings_, sysFile, userFile,
                   initOk, sysTier, reloaded, tblVars, config_mutex_, getPc, getKey,
                   observed, preValues>>

\* configuration_manager.cpp:124-137: no override to apply; GetString("_preset")
\* waits for the mutex; ApplyPreset writes yaml_config_ without it.
ReloadFinish ==
    /\ reloadPc = "merged"
    /\ config_mutex_ = "free"
    /\ LET preset == GetValue(PresetKey, "")
       IN  /\ yaml_config_' = IF preset # "" THEN ApplyPresetTo(yaml_config_, preset)
                                             ELSE yaml_config_
           /\ presetOk' = IF preset = "" THEN presetOk
                          ELSE IF PresetFound(preset) THEN "true" ELSE "false"
    /\ initOk' = "true"
    /\ reloadPc' = "done"
    /\ UNCHANGED <<notConfig, json_config_, cli_overrides_, mappings_, sysFile, userFile,
                   sysTier, userTier, reloaded, presets_, mappingsFile, validation_errors_,
                   validateResult, config_mutex_, getPc, getKey, observed, preValues>>

\* configuration_manager.h:242: GetValue takes the mutex.
GetLock ==
    /\ getPc = "idle" /\ config_mutex_ = "free"
    /\ \E key \in SettingKeys : getKey' = key
    /\ config_mutex_' = "reader"
    /\ getPc' = "locked"
    /\ UNCHANGED <<notConfig, storeVars, reloadPc, observed, preValues>>

\* The thread in Reload is between the clear and the end of the merge: what
\* it writes to json_config_ it writes while this thread reads it.
Racing == reloadPc \in {"cleared", "systemRead"}

\* What a read of a tree that another thread is writing can give (a data
\* race): the value the tree holds at this point, or anything else.
RaceOutcomes(key) == {GetValue(key, "0"), "<undefined>"}

\* configuration_manager.h:244-261: the three lookups, then the lock_guard
\* releases the mutex.
GetReturn ==
    /\ getPc = "locked"
    /\ \E value \in (IF Racing THEN RaceOutcomes(getKey) ELSE {GetValue(getKey, "0")}) :
          observed' = IF reloadPc \in {"idle", "done"}
                         THEN observed
                         ELSE [key |-> getKey, value |-> value]
    /\ config_mutex_' = "free"
    /\ getPc' = "idle"
    /\ UNCHANGED <<notConfig, storeVars, reloadPc, getKey, preValues>>

InitThreads == InitConfig

NextThreads ==
    \/ Initialize
    \/ ReloadClear
    \/ ReloadReadSystem
    \/ ReloadMergeUser
    \/ ReloadFinish
    \/ GetLock
    \/ GetReturn

SpecThreads == InitThreads /\ [][NextThreads]_vars

(***************************************************************************)
(* ONNXRuntimeDetector::NonMaxSuppression.  Coordinates are whole numbers, *)
(* a confidence is a number of tenths, and an IoU or a threshold is a      *)
(* fraction <<numerator, denominator>> compared exactly.                   *)
(***************************************************************************)
MaxDetections == 3

Rect(x, y, w, h) == [x |-> x, y |-> y, width |-> w, height |-> h]

Boxes ==
    { Rect(0, 0, 10, 10), Rect(1, 1, 10, 10), Rect(4, 0, 8, 10),
      Rect(50, 50, 10, 10), Rect(0, 0, 0, 0) }

Confidences == {7, 8, 9}

ClassIds == {0, 1}

\* The boxes that detections of the second class are drawn from.
OtherClassBoxes == { Rect(0, 0, 10, 10), Rect(1, 1, 10, 10) }

\* struct Detection
Detections ==
    {d \in [bbox : Boxes, confidence : Confidences, class_id : ClassIds] :
        d.class_id = 0 \/ d.bbox \in OtherClassBoxes}

Thresholds == { <<2, 5>>, <<1, 2>> }

Max2(a, b) == IF a >= b THEN a ELSE b

Min2(a, b) == IF a <= b THEN a ELSE b

area(r) == r.width * r.height

empty(r) == r.width <= 0 \/ r.height <= 0

\* cv::Rect_ operator& : the overlap of two rectangles, Rect() when there is none.
Intersect(a, b) ==
    LET x1 == Max2(a.x, b.x)
        y1 == Max2(a.y, b.y)
        w  == Min2(a.x + a.width, b.x + b.width) - x1
        h  == Min2(a.y + a.height, b.y + b.height) - y1
    IN  IF empty(a) \/ empty(b) \/ w <= 0 \/ h <= 0 THEN Rect(0, 0, 0, 0)
        ELSE Rect(x1, y1, w, h)

\* IOU: 0 when the union is not above epsilon, else the ratio clamped to [0, 1].
IOU(a, b) ==
    LET intersection == area(Intersect(a, b))
        union_area   == area(a) + area(b) - intersection
    IN  IF union_area <= 0 THEN <<0, 1>>
        ELSE <<Max2(0, Min2(union_area, intersection)), union_area>>

\* p > q for fractions with positive denominators.
Greater(p, q) == p[1] * q[2] > q[1] * p[2]

\* The comparator handed to std::sort.
ConfidenceBefore_Ascending(a, b) == a.confidence < b.confidence

ConfidenceBefore(a, b) == a.confidence > b.confidence

\* What std::sort may leave: a permutation in which no element is placed before one
\* that the comparator puts ahead of it (equal confidences land in either order).
SortedBy(s) == \A p, q \in 1..Len(s) : p < q => ~ConfidenceBefore(s[q], s[p])

SortOutcomes(s) ==
    {t \in {[i \in 1..Len(s) |-> s[f[i]]] : f \in Permutations(1..Len(s))} : SortedBy(t)}

\* The test of the inner loop on a pair (i, j): same class and iou > nms_threshold.
Suppresses_AnyClass(a, b, threshold) == Greater(IOU(a.bbox, b.bbox), threshold)

Suppresses(a, b, threshold) ==
    /\ a.class_id = b.class_id
    /\ Greater(IOU(a.bbox, b.bbox), threshold)

\* The inner loop of iteration i: every later, not yet suppressed j that i suppresses
\* is marked.
InnerLoop(dets, supp, i, threshold) ==
    [j \in 1..Len(dets) |->
        IF j > i /\ ~supp[j] /\ Suppresses(dets[i], dets[j], threshold) THEN TRUE ELSE supp[j]]

\* The caller hands over the detections that passed the confidence threshold.
NmsCall ==
    /\ nmsPc = "called"
    /\ nmsPc' = IF detections = <<>> THEN "returned" ELSE "sort"
    /\ UNCHANGED <<notDetector, nms_threshold, detections, suppressed, nmsI, nmsResult,
                   keptIdx>>

\* std::sort(detections) and the construction of `suppressed` and `result`.
NmsSort ==
    /\ nmsPc = "sort"
    /\ detections' \in SortOutcomes(detections)
    /\ suppressed' = [j \in 1..Len(detections) |-> FALSE]
    /\ nmsI' = 1
    /\ nmsPc' = "loop"
    /\ UNCHANGED <<notDetector, nms_threshold, nmsResult, keptIdx>>

\* One iteration of the outer loop on a suppressed detection: continue.
NmsSkip ==
    /\ nmsPc = "loop" /\ nmsI <= Len(detections)
    /\ suppressed[nmsI]
    /\ nmsI' = nmsI + 1
    /\ UNCHANGED <<notDetector, nms_threshold, nmsPc, detections, suppressed, nmsResult,
                   keptIdx>>

\* One iteration of the outer loop on a detection that stands: it is pushed to the
\* result and the inner loop runs.
NmsKeep ==
    /\ nmsPc = "loop" /\ nmsI <= Len(detections)
    /\ ~suppressed[nmsI]
    /\ nmsResult' = Append(nmsResult, detections[nmsI])
    /\ keptIdx' = Append(keptIdx, nmsI)
    /\ suppressed' = InnerLoop(detections, suppressed, nmsI, nms_threshold)
    /\ nmsI' = nmsI + 1
    /\ UNCHANGED <<notDetector, nms_threshold, nmsPc, detections>>

\* The outer loop ends and `result` is returned.
NmsReturn ==
    /\ nmsPc = "loop" /\ nmsI > Len(detections)
    /\ nmsPc' = "returned"
    /\ UNCHANGED <<notDetector, nms_threshold, detections, suppressed, nmsI, nmsResult,
                   keptIdx>>

NonDecreasing(s) == \A p, q \in 1..Len(s) : p < q => s[p] <= s[q]

\* The Detections in some fixed order, to draw every collection once.
RECURSIVE SetToSeq(_)
SetToSeq(S) ==
    IF S = {} THEN <<>> ELSE LET d == CHOOSE e \in S : TRUE IN <<d>> \o SetToSeq(S \ {d})

DetectionOrder == SetToSeq(Detections)

DetectionLists ==
    UNION {{[i \in 1..n |-> DetectionOrder[s[i]]] :
                s \in {t \in [1..n -> 1..Len(DetectionOrder)] : NonDecreasing(t)}} :
           n \in 0..MaxDetections}

InitDetector ==
    /\ CameraIdle
    /\ ConfigIdle
    /\ LetterboxIdle
    /\ DetectIdle
    /\ PoolIdle
    /\ CalibrationIdle
    /\ TrajectoryIdle
    /\ CoercionIdle
    /\ YoloIdle
    /\ ExportIdle
    /\ nms_threshold \in Thresholds
    /\ detections \in DetectionLists
    /\ nmsPc = "called"
    /\ suppressed = <<>> /\ nmsI = 0 /\ nmsResult = <<>> /\ keptIdx = <<>>

NextDetector == NmsCall \/ NmsSort \/ NmsSkip \/ NmsKeep \/ NmsReturn

SpecDetector == InitDetector /\ [][NextDetector]_vars

(***************************************************************************)
(* The letterbox of ONNXRuntimeDetector: PreprocessImageStandard resizes   *)
(* the image and records (scale, x_offset, y_offset), PostprocessYOLO maps *)
(* a centre back with them.  A real number is a fraction <<n, d>>, d > 0,  *)
(* and positions are measured from the left and top edge of the image.     *)
(***************************************************************************)
ImageCols == {5, 7, 16, 1280, 2560}

ImageRows == {3, 9, 720, 1443}

InputSizes == {[input_width |-> 8, input_height |-> 8],
               [input_width |-> 640, input_height |-> 640]}

\* static_cast<int>(n * f) for n >= 0 and a fraction f >= 0.
TruncMul(n, f) == (n * f[1]) \div f[2]

RECURSIVE GCD(_, _)
GCD(a, b) == IF b = 0 THEN a ELSE GCD(b, a % b)

\* The same fraction in lowest terms.
Lowest(f) == LET g == GCD(f[1], f[2]) IN IF g = 0 THEN f ELSE <<f[1] \div g, f[2] \div g>>

\* std::min(input_width / image.cols, input_height / image.rows)
ScaleOf(img, cfg) ==
    IF cfg.input_width * img.rows <= cfg.input_height * img.cols
    THEN Lowest(<<cfg.input_width, img.cols>>)
    ELSE Lowest(<<cfg.input_height, img.rows>>)

new_width(img, cfg) == TruncMul(img.cols, ScaleOf(img, cfg))

new_height(img, cfg) == TruncMul(img.rows, ScaleOf(img, cfg))

\* The parameters PreprocessImageStandard records.
LetterboxParams(img, cfg) ==
    [scale    |-> ScaleOf(img, cfg),
     x_offset |-> (cfg.input_width - new_width(img, cfg)) \div 2,
     y_offset |-> (cfg.input_height - new_height(img, cfg)) \div 2]

\* cv::resize to (new_width, new_height) followed by copyTo at (x_offset, y_offset):
\* the whole extent of the image lands on new_size pixels after the offset.
Placed(p, extent, new_size, offset) == Lowest(<<p * new_size + offset * extent, extent>>)

\* (c - offset) / scale
Inverse(c, offset, scale) == Lowest(<<(c[1] - offset * c[2]) * scale[2], c[2] * scale[1]>>)

\* The image arrives and PreprocessImageStandard runs on it.
Preprocess ==
    /\ lbPc = "image"
    /\ letterbox_params_' = LetterboxParams(image, input_size)
    /\ tensorPoint' =
          [x |-> Placed(srcPoint.x, image.cols, new_width(image, input_size),
                        letterbox_params_'.x_offset),
           y |-> Placed(srcPoint.y, image.rows, new_height(image, input_size),
                        letterbox_params_'.y_offset)]
    /\ lbPc' = "preprocessed"
    /\ UNCHANGED <<notLetterbox, image, input_size, srcPoint, origPoint>>

\* PostprocessYOLO maps the centre the network reports back to the image.
Postprocess ==
    /\ lbPc = "preprocessed"
    /\ origPoint' =
          [x |-> Inverse(tensorPoint.x, letterbox_params_.x_offset, letterbox_params_.scale),
           y |-> Inverse(tensorPoint.y, letterbox_params_.y_offset, letterbox_params_.scale)]
    /\ lbPc' = "postprocessed"
    /\ UNCHANGED <<notLetterbox, image, input_size, letterbox_params_, srcPoint, tensorPoint>>

InitLetterbox ==
    /\ CameraIdle
    /\ ConfigIdle
    /\ DetectorIdle
    /\ DetectIdle
    /\ PoolIdle
    /\ CalibrationIdle
    /\ TrajectoryIdle
    /\ CoercionIdle
    /\ YoloIdle
    /\ ExportIdle
    /\ lbPc = "image"
    /\ image \in [cols : ImageCols, rows : ImageRows]
    /\ input_size \in InputSizes
    /\ new_width(image, input_size) >= 1 /\ new_height(image, input_size) >= 1
    /\ srcPoint \in [x : {0, image.cols \div 2, image.cols}, y : {0, image.rows \div 2, image.rows}]
    /\ letterbox_params_ = NoParams /\ tensorPoint = NoPoint /\ origPoint = NoPoint

NextLetterbox == Preprocess \/ Postprocess

SpecLetterbox == InitLetterbox /\ [][NextLetterbox]_vars

(***************************************************************************)
(* ONNXRuntimeDetector::Detect, called by the threads that share one       *)
(* detector built with use_memory_pool.                                    *)
(***************************************************************************)
MaxCalls == 3

\* The calls of Detect started so far, by all threads.
CallsStarted == callsMade[1] + callsMade[2]

InferenceTimes == {2, 4}

\* (prev_avg * (total_inferences_ - 1) + current_time) / total_inferences_
RunningMean(prev, total, current_time) ==
    Lowest(<<prev[1] * (total - 1) + current_time * prev[2], prev[2] * total>>)

\* Detect returns {} from one of the checks of its arguments and of session_.
DetectRejected(t) ==
    /\ detectPc[t] = "idle" /\ CallsStarted < MaxCalls
    /\ callsMade' = [callsMade EXCEPT ![t] = @ + 1]
    /\ detectExit' = [detectExit EXCEPT ![t] = "rejected"]
    /\ UNCHANGED <<notDetect, input_buffer_in_use, letterboxOf, total_inferences_,
                   avg_inference_time_ms_, detectPc, heldBuffer, metricsArg, inference_ms,
                   prev_avg, usedParams, doneCount, doneSum>>

\* Detect passes the checks and calls GetInputBuffer: the pool hands out its buffer
\* and sets the flag under its mutex, or throws because the flag is set, and then the
\* thread-local fallback buffer is used.
DetectClaim(t) ==
    /\ detectPc[t] = "idle" /\ CallsStarted < MaxCalls
    /\ callsMade' = [callsMade EXCEPT ![t] = @ + 1]
    /\ \E m \in BOOLEAN : metricsArg' = [metricsArg EXCEPT ![t] = m]
    /\ heldBuffer' = [heldBuffer EXCEPT ![t] = IF input_buffer_in_use THEN "fallback" ELSE "pool"]
    /\ input_buffer_in_use' = TRUE
    /\ detectPc' = [detectPc EXCEPT ![t] = "preprocess"]
    /\ UNCHANGED detectExit
    /\ UNCHANGED <<notDetect, letterboxOf, total_inferences_, avg_inference_time_ms_,
                   inference_ms, prev_avg, usedParams, doneCount, doneSum>>

\* PreprocessImageNEON / PreprocessImageStandard store the letterbox of this image in
\* the member letterbox_params_.
DetectPreprocess(t) ==
    /\ detectPc[t] = "preprocess"
    /\ letterboxOf' = t
    /\ detectPc' = [detectPc EXCEPT ![t] = "run"]
    /\ UNCHANGED detectExit
    /\ UNCHANGED <<notDetect, input_buffer_in_use, total_inferences_, avg_inference_time_ms_,
                   heldBuffer, metricsArg, inference_ms, prev_avg, usedParams, callsMade,
                   doneCount, doneSum>>

\* session_->Run returns tensors that pass the checks of the output.
DetectRun(t) ==
    /\ detectPc[t] = "run"
    /\ \E ms \in InferenceTimes : inference_ms' = [inference_ms EXCEPT ![t] = ms]
    /\ detectPc' = [detectPc EXCEPT ![t] = "postprocess"]
    /\ UNCHANGED detectExit
    /\ UNCHANGED <<notDetect, input_buffer_in_use, letterboxOf, total_inferences_,
                   avg_inference_time_ms_, heldBuffer, metricsArg, prev_avg, usedParams,
                   callsMade, doneCount, doneSum>>

\* session_->Run throws: the exception leaves Detect, which has no handler.
DetectRunThrows(t) ==
    /\ detectPc[t] = "run"
    /\ detectPc' = [detectPc EXCEPT ![t] = "idle"]
    /\ heldBuffer' = [heldBuffer EXCEPT ![t] = "none"]
    /\ detectExit' = [detectExit EXCEPT ![t] = "exception"]
    /\ UNCHANGED <<notDetect, input_buffer_in_use, letterboxOf, total_inferences_,
                   avg_inference_time_ms_, metricsArg, inference_ms, prev_avg, usedParams,
                   callsMade, doneCount, doneSum>>

\* session_->Run returns, and one of the checks of the output returns {}.
DetectBadOutput(t) ==
    /\ detectPc[t] = "run"
    /\ detectPc' = [detectPc EXCEPT ![t] = "idle"]
    /\ heldBuffer' = [heldBuffer EXCEPT ![t] = "none"]
    /\ detectExit' = [detectExit EXCEPT ![t] = "error"]
    /\ UNCHANGED <<notDetect, input_buffer_in_use, letterboxOf, total_inferences_,
                   avg_inference_time_ms_, metricsArg, inference_ms, prev_avg, usedParams,
                   callsMade, doneCount, doneSum>>

\* PostprocessYOLO(output_data, output_size, letterbox_params_)
DetectPostprocess(t) ==
    /\ detectPc[t] = "postprocess"
    /\ usedParams' = [usedParams EXCEPT ![t] = letterboxOf]
    /\ detectPc' = [detectPc EXCEPT ![t] = "release"]
    /\ UNCHANGED detectExit
    /\ UNCHANGED <<notDetect, input_buffer_in_use, letterboxOf, total_inferences_,
                   avg_inference_time_ms_, heldBuffer, metricsArg, inference_ms, prev_avg,
                   callsMade, doneCount, doneSum>>

\* ReleaseBuffers(): the pool clears its flags, whoever set them.
DetectRelease(t) ==
    /\ detectPc[t] = "release"
    /\ input_buffer_in_use' = FALSE
    /\ heldBuffer' = [heldBuffer EXCEPT ![t] = "none"]
    /\ detectPc' = [detectPc EXCEPT ![t] = "count"]
    /\ UNCHANGED detectExit
    /\ UNCHANGED <<notDetect, letterboxOf, total_inferences_, avg_inference_time_ms_,
                   metricsArg, inference_ms, prev_avg, usedParams, callsMade, doneCount,
                   doneSum>>

\* The metrics record is filled if there is one, and total_inferences_++.
DetectCount(t) ==
    /\ detectPc[t] = "count"
    /\ total_inferences_' = total_inferences_ + 1
    /\ detectPc' = [detectPc EXCEPT ![t] = "load"]
    /\ UNCHANGED detectExit
    /\ UNCHANGED <<notDetect, input_buffer_in_use, letterboxOf, avg_inference_time_ms_,
                   heldBuffer, metricsArg, inference_ms, prev_avg, usedParams, callsMade,
                   doneCount, doneSum>>

\* float prev_avg = avg_inference_time_ms_.load()
DetectLoadAvg(t) ==
    /\ detectPc[t] = "load"
    /\ prev_avg' = [prev_avg EXCEPT ![t] = avg_inference_time_ms_]
    /\ detectPc' = [detectPc EXCEPT ![t] = "store"]
    /\ UNCHANGED detectExit
    /\ UNCHANGED <<notDetect, input_buffer_in_use, letterboxOf, total_inferences_,
                   avg_inference_time_ms_, heldBuffer, metricsArg, inference_ms, usedParams,
                   callsMade, doneCount, doneSum>>

\* avg_inference_time_ms_ = ..., with current_time = metrics ? metrics->inference_ms : 0,
\* and the return of the detections.
DetectStoreAvg(t) ==
    /\ detectPc[t] = "store"
    /\ avg_inference_time_ms_' =
          RunningMean(prev_avg[t], total_inferences_,
                      IF metricsArg[t] THEN inference_ms[t] ELSE 0)
    /\ doneCount' = doneCount + 1
    /\ doneSum' = doneSum + inference_ms[t]
    /\ detectPc' = [detectPc EXCEPT ![t] = "idle"]
    /\ detectExit' = [detectExit EXCEPT ![t] = "detections"]
    /\ UNCHANGED <<notDetect, input_buffer_in_use, letterboxOf, total_inferences_, heldBuffer,
                   metricsArg, inference_ms, prev_avg, usedParams, callsMade>>

InitDetect ==
    /\ CameraIdle
    /\ ConfigIdle
    /\ DetectorIdle
    /\ LetterboxIdle
    /\ DetectIdle
    /\ PoolIdle
    /\ CalibrationIdle
    /\ TrajectoryIdle
    /\ CoercionIdle
    /\ YoloIdle
    /\ ExportIdle

NextDetect ==
    \E t \in DetectThreads :
        \/ DetectRejected(t)
        \/ DetectClaim(t)
        \/ DetectPreprocess(t)
        \/ DetectRun(t)
        \/ DetectRunThrows(t)
        \/ DetectBadOutput(t)
        \/ DetectPostprocess(t)
        \/ DetectRelease(t)
        \/ DetectCount(t)
        \/ DetectLoadAvg(t)
        \/ DetectStoreAvg(t)

SpecDetect == InitDetect /\ [][NextDetect]_vars

(***************************************************************************)
(* PreprocessingThreadPool: the workers run WorkerThread, the thread that  *)
(* owns the pool calls PreprocessBatch and then destroys the pool.         *)
(***************************************************************************)
MaxBatches == 1

MaxBatchSize == 2

\* while (!stop_): the test at the top of the loop.
WorkerLoopTest(w) ==
    /\ workerPc[w] = "loop"
    /\ workerPc' = [workerPc EXCEPT ![w] = IF stop_ THEN "exited" ELSE "lock"]
    /\ UNCHANGED <<notPool, stop_, tasks_, queue_mutex_, ownerPc, batches>>

\* std::unique_lock<std::mutex> lock(queue_mutex_), and the lock taken again by a
\* worker that was woken out of the wait.
WorkerLock(w) ==
    /\ workerPc[w] \in {"lock", "woken"}
    /\ queue_mutex_ = Unlocked
    /\ queue_mutex_' = w
    /\ workerPc' = [workerPc EXCEPT ![w] = "predicate"]
    /\ UNCHANGED <<notPool, stop_, tasks_, ownerPc, batches>>

\* cv_.wait(lock, pred) evaluates pred with the lock held: true ends the wait, false
\* leads to the call that blocks.
WorkerPredicate(w) ==
    /\ workerPc[w] = "predicate"
    /\ workerPc' = [workerPc EXCEPT ![w] = IF tasks_ > 0 \/ stop_ THEN "ready" ELSE "towait"]
    /\ UNCHANGED <<notPool, stop_, tasks_, queue_mutex_, ownerPc, batches>>

\* The wait proper: the mutex is released and the worker blocks on cv_, in one step.
WorkerBlock(w) ==
    /\ workerPc[w] = "towait"
    /\ queue_mutex_' = Unlocked
    /\ workerPc' = [workerPc EXCEPT ![w] = "blocked"]
    /\ UNCHANGED <<notPool, stop_, tasks_, ownerPc, batches>>

\* if (stop_) break; otherwise the front task is popped; the lock is released at the
\* end of the block.
WorkerTake(w) ==
    /\ workerPc[w] = "ready"
    /\ queue_mutex_' = Unlocked
    /\ IF stop_
       THEN /\ workerPc' = [workerPc EXCEPT ![w] = "exited"]
            /\ UNCHANGED tasks_
       ELSE /\ workerPc' = [workerPc EXCEPT ![w] = "process"]
            /\ tasks_' = tasks_ - 1
    /\ UNCHANGED <<notPool, stop_, ownerPc, batches>>

\* The task is processed and the loop starts over.
WorkerProcess(w) ==
    /\ workerPc[w] = "process"
    /\ workerPc' = [workerPc EXCEPT ![w] = "loop"]
    /\ UNCHANGED <<notPool, stop_, tasks_, queue_mutex_, ownerPc, batches>>

\* A condition variable may wake a waiter without a notification.
SpuriousWake(w) ==
    /\ workerPc[w] = "blocked"
    /\ workerPc' = [workerPc EXCEPT ![w] = "woken"]
    /\ UNCHANGED <<notPool, stop_, tasks_, queue_mutex_, ownerPc, batches>>

\* cv_.notify_all(): the workers blocked on cv_ at this moment are woken.
NotifyAll == [w \in Workers |-> IF workerPc[w] = "blocked" THEN "woken" ELSE workerPc[w]]

\* PreprocessBatch: the tasks are pushed under the lock.
BatchPush ==
    /\ ownerPc = "idle" /\ batches < MaxBatches
    /\ queue_mutex_ = Unlocked
    /\ \E n \in 1..MaxBatchSize : tasks_' = tasks_ + n
    /\ batches' = batches + 1
    /\ ownerPc' = "pushed"
    /\ UNCHANGED <<notPool, stop_, queue_mutex_, workerPc>>

\* PreprocessBatch: cv_.notify_all() after the lock is released.
BatchNotify ==
    /\ ownerPc = "pushed"
    /\ workerPc' = NotifyAll
    /\ ownerPc' = "polling"
    /\ UNCHANGED <<notPool, stop_, tasks_, queue_mutex_, batches>>

\* PreprocessBatch: while (!tasks_.empty()) sleep; return.
BatchPoll ==
    /\ ownerPc = "polling"
    /\ tasks_ = 0
    /\ ownerPc' = "idle"
    /\ UNCHANGED <<notPool, stop_, tasks_, queue_mutex_, workerPc, batches>>

\* ~PreprocessingThreadPool: stop_ = true
DestructorStop ==
    /\ ownerPc = "idle"
    /\ stop_' = TRUE
    /\ ownerPc' = "stopping"
    /\ UNCHANGED <<notPool, tasks_, queue_mutex_, workerPc, batches>>

\* ~PreprocessingThreadPool: cv_.notify_all()
DestructorNotify ==
    /\ ownerPc = "stopping"
    /\ workerPc' = NotifyAll
    /\ ownerPc' = "join"
    /\ UNCHANGED <<notPool, stop_, tasks_, queue_mutex_, batches>>

\* ~PreprocessingThreadPool: every join has returned.
DestructorJoin ==
    /\ ownerPc = "join"
    /\ \A w \in Workers : workerPc[w] = "exited"
    /\ ownerPc' = "destroyed"
    /\ UNCHANGED <<notPool, stop_, tasks_, queue_mutex_, workerPc, batches>>

WorkerStep(w) ==
    \/ WorkerLoopTest(w)
    \/ WorkerLock(w)
    \/ WorkerPredicate(w)
    \/ WorkerBlock(w)
    \/ WorkerTake(w)
    \/ WorkerProcess(w)

OwnerStep ==
    \/ BatchPush
    \/ BatchNotify
    \/ BatchPoll
    \/ DestructorStop
    \/ DestructorNotify
    \/ DestructorJoin

\* The constructor has started the workers.
InitPool ==
    /\ CameraIdle
    /\ ConfigIdle
    /\ DetectorIdle
    /\ LetterboxIdle
    /\ DetectIdle
    /\ CalibrationIdle
    /\ TrajectoryIdle
    /\ CoercionIdle
    /\ YoloIdle
    /\ ExportIdle
    /\ stop_ = FALSE /\ tasks_ = 0 /\ queue_mutex_ = Unlocked
    /\ workerPc = [w \in Workers |-> "loop"]
    /\ ownerPc = "idle" /\ batches = 0

NextPool == OwnerStep \/ \E w \in Workers : WorkerStep(w) \/ SpuriousWake(w)

\* Every thread that can take a step of its code eventually takes one; a spurious
\* wake-up may never come.
SpecPool ==
    /\ InitPool /\ [][NextPool]_vars
    /\ SF_vars(OwnerStep)
    /\ \A w \in Workers : SF_vars(WorkerStep(w))

(***************************************************************************)
(* GolfSimCalibration::AutoCalibrateCamera.  A focal length is a whole     *)
(* number of millimetres or -1 for a failed detection, the average is a    *)
(* fraction <<n, d>>, an angle is a whole number of degrees.               *)
(***************************************************************************)
MaxPictures == 2

MaxTolerated == 2

\* What DetermineFocalLengthForAutoCalibration returns for a picture.
FocalOutcomes == {-1, 1, 3, 60}

\* What DetermineCameraAngles computes for the last picture.
AngleOutcomes == {<<10, -5>>, <<45, -45>>, <<60, 0>>, <<0, -46>>}

\* number_attempts: 10 unless the configured number of pictures is positive.
number_attempts ==
    IF kNumberPicturesForFocalLengthAverage > 0 THEN kNumberPicturesForFocalLengthAverage ELSE 10

\* number_failures > kNumberOfCalibrationFailuresToTolerate
TooManyFailures_Early(failures, tolerated) == failures >= tolerated

TooManyFailures(failures, tolerated) == failures > tolerated

\* average_focal_length < kMinFocalLength || average_focal_length > kMaxFocalLength
FocalOutOfRange_UpperOnly(f) == f[1] > 50 * f[2]

FocalOutOfRange(f) == f[1] < 2 * f[2] \/ f[1] > 50 * f[2]

Abs(x) == IF x < 0 THEN -x ELSE x

\* std::abs(camera_angles[0]) > kMaxReasonableAngle || std::abs(camera_angles[1]) > ...
AnglesUnreasonable(a) == Abs(a[1]) > 45 \/ Abs(a[2]) > 45

\* What follows the two calls of WebApi::UpdateCalibration: their results are dropped.
AfterNotify_Fatal(puts) == IF puts[1] /\ puts[2] THEN "backup" ELSE "returned"

AfterNotify(puts) == "backup"

\* if (command_result != 0) return false;
AfterBackup_Ignored(command_result) == "write"

AfterBackup(command_result) == IF command_result # 0 THEN "returned" ELSE "write"

\* return false / return true: the frame of every return statement.
Return(value, why) ==
    /\ calPc' = "returned"
    /\ calResult' = value
    /\ calFailure' = why

\* One of the checks before the sampling loop fails.
CalPrecheckFails ==
    /\ calPc = "start"
    /\ Return("false", "precheck")
    /\ UNCHANGED <<notCalibration, kNumberPicturesForFocalLengthAverage,
                   kNumberOfCalibrationFailuresToTolerate, calI, number_failures,
                   number_samples, average_focal_length, camera_angles, treeValues,
                   putResults, backupFile, configFile, imagesTaken, successes, successSum>>

\* The checks pass and the loop is entered.
CalEnterLoop ==
    /\ calPc = "start"
    /\ calPc' = "loop"
    /\ UNCHANGED <<notCalibration, kNumberPicturesForFocalLengthAverage,
                   kNumberOfCalibrationFailuresToTolerate, calI, number_failures,
                   number_samples, average_focal_length, camera_angles, treeValues,
                   putResults, backupFile, configFile, calResult, calFailure, imagesTaken,
                   successes, successSum>>

\* One pass through the body of the sampling loop.
CalSample ==
    /\ calPc = "loop" /\ calI < number_attempts
    /\ \/ \* TakeStillPicture fails
          /\ Return("false", "picture")
          /\ UNCHANGED <<calI, number_failures, number_samples, average_focal_length,
                         imagesTaken, successes, successSum>>
       \/ \E focal_length \in FocalOutcomes :
            LET failed   == focal_length < 0
                failures == IF failed THEN number_failures + 1 ELSE number_failures
            IN  /\ imagesTaken' = imagesTaken + 1
                /\ number_failures' = failures
                /\ IF failed /\ TooManyFailures(failures, kNumberOfCalibrationFailuresToTolerate)
                   THEN /\ Return("false", "failures")
                        /\ UNCHANGED <<calI, number_samples, average_focal_length, successes,
                                       successSum>>
                   ELSE /\ calI' = (IF failed THEN calI - 1 ELSE calI) + 1
                        /\ number_samples' = number_samples + 1
                        /\ average_focal_length' =
                              <<average_focal_length[1] + focal_length, 1>>
                        /\ successes' = IF failed THEN successes ELSE successes + 1
                        /\ successSum' = IF failed THEN successSum
                                         ELSE successSum + focal_length
                        /\ UNCHANGED <<calPc, calResult, calFailure>>
    /\ UNCHANGED <<notCalibration, kNumberPicturesForFocalLengthAverage,
                   kNumberOfCalibrationFailuresToTolerate, camera_angles, treeValues,
                   putResults, backupFile, configFile>>

\* The loop has ended: the average is taken and checked against its range.
CalAverage ==
    /\ calPc = "loop" /\ calI >= number_attempts
    /\ IF number_samples = 0
       THEN /\ Return("false", "no_samples")
            /\ UNCHANGED average_focal_length
       ELSE /\ average_focal_length' = <<average_focal_length[1], number_samples>>
            /\ IF FocalOutOfRange(average_focal_length')
               THEN Return("false", "focal_range")
               ELSE /\ calPc' = "angles"
                    /\ UNCHANGED <<calResult, calFailure>>
    /\ UNCHANGED <<notCalibration, kNumberPicturesForFocalLengthAverage,
                   kNumberOfCalibrationFailuresToTolerate, calI, number_failures,
                   number_samples, camera_angles, treeValues, putResults, backupFile,
                   configFile, imagesTaken, successes, successSum>>

\* DetermineCameraAngles on the last picture, and the two calls of SetTreeValue.
CalAngles ==
    /\ calPc = "angles"
    /\ \/ \* GetBall finds no ball
          /\ Return("false", "angles_ball")
          /\ UNCHANGED <<camera_angles, treeValues>>
       \/ \E a \in AngleOutcomes :
            /\ camera_angles' = a
            /\ IF AnglesUnreasonable(a)
               THEN /\ Return("false", "angle_range")
                    /\ UNCHANGED treeValues
               ELSE /\ treeValues' = [focal |-> average_focal_length, angles |-> a,
                                      written |-> "calibrated"]
                    /\ calPc' = "notify"
                    /\ UNCHANGED <<calResult, calFailure>>
    /\ UNCHANGED <<notCalibration, kNumberPicturesForFocalLengthAverage,
                   kNumberOfCalibrationFailuresToTolerate, calI, number_failures,
                   number_samples, average_focal_length, putResults, backupFile, configFile,
                   imagesTaken, successes, successSum>>

\* The two PUTs of WebApi::UpdateCalibration, each of which succeeds or fails.
CalNotify ==
    /\ calPc = "notify"
    /\ \E focal_put, angles_put \in BOOLEAN :
          /\ putResults' = <<focal_put, angles_put>>
          /\ IF AfterNotify(putResults') = "returned"
             THEN Return("false", "web")
             ELSE /\ calPc' = AfterNotify(putResults')
                  /\ UNCHANGED <<calResult, calFailure>>
    /\ UNCHANGED <<notCalibration, kNumberPicturesForFocalLengthAverage,
                   kNumberOfCalibrationFailuresToTolerate, calI, number_failures,
                   number_samples, average_focal_length, camera_angles, treeValues,
                   backupFile, configFile, imagesTaken, successes, successSum>>

\* system("cp <config> <config>_BACKUP_<unique>.json")
CalBackup ==
    /\ calPc = "backup"
    /\ \E command_result \in {0, 1} :
          /\ backupFile' = IF command_result = 0 THEN configFile ELSE backupFile
          /\ IF AfterBackup(command_result) = "returned"
             THEN Return("false", "backup")
             ELSE /\ calPc' = AfterBackup(command_result)
                  /\ UNCHANGED <<calResult, calFailure>>
    /\ UNCHANGED <<notCalibration, kNumberPicturesForFocalLengthAverage,
                   kNumberOfCalibrationFailuresToTolerate, calI, number_failures,
                   number_samples, average_focal_length, camera_angles, treeValues,
                   putResults, configFile, imagesTaken, successes, successSum>>

\* GolfSimConfiguration::WriteTreeToFile(config_file_name)
CalWrite ==
    /\ calPc = "write"
    /\ \/ /\ configFile' = treeValues
          /\ Return("true", "none")
       \/ /\ configFile' \in {configFile, [treeValues EXCEPT !.written = "partly"]}
          /\ Return("false", "write")
    /\ UNCHANGED <<notCalibration, kNumberPicturesForFocalLengthAverage,
                   kNumberOfCalibrationFailuresToTolerate, calI, number_failures,
                   number_samples, average_focal_length, camera_angles, treeValues,
                   putResults, backupFile, imagesTaken, successes, successSum>>

InitCalibration ==
    /\ CameraIdle
    /\ ConfigIdle
    /\ DetectorIdle
    /\ LetterboxIdle
    /\ DetectIdle
    /\ PoolIdle
    /\ TrajectoryIdle
    /\ CoercionIdle
    /\ YoloIdle
    /\ ExportIdle
    /\ calPc = "start"
    /\ kNumberPicturesForFocalLengthAverage \in 0..MaxPictures
    /\ kNumberOfCalibrationFailuresToTolerate \in 0..MaxTolerated
    /\ calI = 0 /\ number_failures = 0 /\ number_samples = 0
    /\ average_focal_length = <<0, 1>> /\ camera_angles = <<0, 0>>
    /\ treeValues = OldConfig /\ putResults = <<>>
    /\ backupFile = NoFile /\ configFile = OldConfig
    /\ calResult = "none" /\ calFailure = "none"
    /\ imagesTaken = 0 /\ successes = 0 /\ successSum = 0

NextCalibration ==
    \/ CalPrecheckFails
    \/ CalEnterLoop
    \/ CalSample
    \/ CalAverage
    \/ CalAngles
    \/ CalNotify
    \/ CalBackup
    \/ CalWrite

\* The call is not suspended for ever: a step that can be taken is taken.
SpecCalibration == InitCalibration /\ [][NextCalibration]_vars /\ WF_vars(NextCalibration)

(***************************************************************************)
(* PiTracTrajectoryCalculator.  Every field of the input is a whole number *)
(* of halves of its unit: 91 is 45.5 degrees, 20001 is 10000.5 rpm.        *)
(***************************************************************************)
Velocities == {99, 100, 500, 501}

VerticalAngles == {-21, -20, 120, 121}

HorizontalAngles == {-91, -90, 0, 90, 91, 92}

SpinRates == {-20001, 0, 20000, 20001, 20002}

\* The overloads the name abs can resolve to in the global namespace: the
\* int abs(int) of <stdlib.h>, or the double overload where a header of the
\* build has brought it there.
AbsOverloads == {"int", "double"}

\* abs(x): through the int overload the argument is converted to int first.
abs(x, overload) ==
    LET magnitude == IF x < 0 THEN -x ELSE x
    IN  IF overload = "int" THEN 2 * (magnitude \div 2) ELSE magnitude

validateInput(in, overload) ==
    IF in.initial_velocity_mph < 100 \/ in.initial_velocity_mph > 500 THEN FALSE
    ELSE IF in.vertical_launch_angle_deg < -20 \/ in.vertical_launch_angle_deg > 120 THEN FALSE
    ELSE IF abs(in.horizontal_launch_angle_deg, overload) > 90 THEN FALSE
    ELSE IF abs(in.backspin_rpm, overload) > 20000 \/ abs(in.sidespin_rpm, overload) > 20000
         THEN FALSE
    ELSE TRUE

\* What the simulator of the physics library gives: a landing distance, or an exception.
SimulatorOutcomes == {"lands", "throws"}

calculateCarry ==
    /\ trajPc = "ready"
    /\ trajPc' = "carried"
    /\ IF ~validateInput(input, absOverload)
       THEN /\ carryResult' = [calculation_successful |-> FALSE,
                               error_message |-> "Invalid input parameters",
                               carry_distance_yards |-> 0]
            /\ UNCHANGED libraryCalls
       ELSE \E outcome \in SimulatorOutcomes :
              /\ libraryCalls' = libraryCalls + 1
              /\ carryResult' =
                    IF outcome = "lands"
                    THEN [calculation_successful |-> TRUE,
                          error_message |-> "Calculated using libshotscope physics",
                          carry_distance_yards |-> input.initial_velocity_mph]
                    ELSE [calculation_successful |-> FALSE,
                          error_message |-> "libshotscope calculation error",
                          carry_distance_yards |-> 0]
    /\ UNCHANGED <<notTrajectory, input, absOverload, fullTrajectory>>

calculateFullTrajectory ==
    /\ trajPc = "carried"
    /\ trajPc' = "traced"
    /\ IF ~validateInput(input, absOverload)
       THEN /\ fullTrajectory' = "empty"
            /\ UNCHANGED libraryCalls
       ELSE \E outcome \in SimulatorOutcomes :
              /\ libraryCalls' = libraryCalls + 1
              /\ fullTrajectory' = IF outcome = "lands" THEN "points" ELSE "empty"
    /\ UNCHANGED <<notTrajectory, input, absOverload, carryResult>>

InitTrajectory ==
    /\ CameraIdle
    /\ ConfigIdle
    /\ DetectorIdle
    /\ LetterboxIdle
    /\ DetectIdle
    /\ PoolIdle
    /\ CalibrationIdle
    /\ CoercionIdle
    /\ YoloIdle
    /\ ExportIdle
    /\ trajPc = "ready"
    /\ input \in [initial_velocity_mph : Velocities, vertical_launch_angle_deg : VerticalAngles,
                  horizontal_launch_angle_deg : HorizontalAngles, backspin_rpm : SpinRates,
                  sidespin_rpm : SpinRates]
    /\ absOverload \in AbsOverloads
    /\ carryResult = NoResult
    /\ fullTrajectory = "none"
    /\ libraryCalls = 0

NextTrajectory == calculateCarry \/ calculateFullTrajectory

SpecTrajectory == InitTrajectory /\ [][NextTrajectory]_vars

(***************************************************************************)
(* ConfigurationManager::GetInt, GetFloat and GetBool: GetString, then the *)
(* conversion of the string.  A string is the sequence of its characters.  *)
(***************************************************************************)
TrueWords == { <<"t", "r", "u", "e">>, <<"1">>, <<"y", "e", "s">>, <<"o", "n">> }

FalseWords == { <<"f", "a", "l", "s", "e">>, <<"0">>, <<"n", "o">>, <<"o", "f", "f">> }

\* The strings a configuration file or an override may hold for the key.
StoredStrings ==
    TrueWords \cup FalseWords \cup
    { <<>>, <<"T", "r", "u", "e">>, <<"O", "N">>, <<"a", "b", "c">>,
      <<"1", "2">>, <<"-", "5">>, <<"+", "4">>, <<" ", "7">>, <<"7", " ">>,
      <<"1", "2", "a", "b", "c">>, <<"3", ".", "7">>, <<".", "5">>, <<"1", ".", "5", "x">>,
      <<"-">>, <<"2", "1", "4", "7", "4", "8", "3", "6", "4", "8">> }

IntDefaults == {0, 7}

FloatDefaults == { <<0, 1>>, <<3, 2>> }

DigitOf(c) ==
    CASE c = "0" -> 0 [] c = "1" -> 1 [] c = "2" -> 2 [] c = "3" -> 3 [] c = "4" -> 4
      [] c = "5" -> 5 [] c = "6" -> 6 [] c = "7" -> 7 [] c = "8" -> 8 [] c = "9" -> 9
      [] OTHER -> -1

IsDigitAt(s, i) == i <= Len(s) /\ DigitOf(s[i]) >= 0

\* std::to_string(int) for the defaults of the model (one digit).
IntToString(n) == << CHOOSE c \in {"0", "1", "2", "3", "4", "5", "6", "7", "8", "9"} : DigitOf(c) = n >>

\* std::to_string(float) prints six decimals: 0.000000 and 1.500000.
FloatToString(f) ==
    IF f = <<0, 1>> THEN <<"0", ".", "0", "0", "0", "0", "0", "0">>
    ELSE <<"1", ".", "5", "0", "0", "0", "0", "0">>

\* The white space strtol skips.
RECURSIVE SkipSpace(_, _)
SkipSpace(s, i) == IF i <= Len(s) /\ s[i] = " " THEN SkipSpace(s, i + 1) ELSE i

AfterSign(s, i) == IF i <= Len(s) /\ s[i] \in {"+", "-"} THEN i + 1 ELSE i

RECURSIVE DigitsEnd(_, _)
DigitsEnd(s, i) == IF IsDigitAt(s, i) THEN DigitsEnd(s, i + 1) ELSE i

\* The value of the digits s[i..k-1] on top of acc, or -1 when it leaves the range of int.
RECURSIVE Accumulate(_, _, _, _)
Accumulate(s, i, k, acc) ==
    IF i >= k THEN acc
    ELSE IF acc > (2147483647 - DigitOf(s[i])) \div 10 THEN -1
    ELSE Accumulate(s, i + 1, k, acc * 10 + DigitOf(s[i]))

RECURSIVE Pow10(_)
Pow10(n) == IF n = 0 THEN 1 ELSE 10 * Pow10(n - 1)

\* std::stoi: white space, a sign, then the longest run of digits; what
\* follows the digits is ignored.  No digit: invalid_argument; a value
\* beyond int: out_of_range.
stoi(s) ==
    LET b == SkipSpace(s, 1)
        d == AfterSign(s, b)
        e == DigitsEnd(s, d)
        m == Accumulate(s, d, e, 0)
    IN  IF e = d \/ m < 0 THEN [thrown |-> TRUE, value |-> 0]
        ELSE [thrown |-> FALSE, value |-> IF d > b /\ s[b] = "-" THEN -m ELSE m]

\* std::stof: white space, a sign, digits with an optional fraction; what
\* follows is ignored.  No digit at all: invalid_argument.
stof(s) ==
    LET b  == SkipSpace(s, 1)
        d  == AfterSign(s, b)
        e  == DigitsEnd(s, d)
        f  == IF e <= Len(s) /\ s[e] = "." THEN e + 1 ELSE e
        g  == DigitsEnd(s, f)
        fe == IF e = d /\ g = f THEN d ELSE g
        whole == Accumulate(s, d, e, 0)
        part  == Accumulate(s, f, g, 0)
        m  == whole * Pow10(g - f) + part
    IN  IF fe = d \/ whole < 0 THEN [thrown |-> TRUE, value |-> <<0, 1>>]
        ELSE [thrown |-> FALSE,
              value |-> Lowest(<<IF d > b /\ s[b] = "-" THEN -m ELSE m, Pow10(g - f)>>)]

\* GetString(key, default_value): the string of the first tier that has the key.
GetStringOr(default_value) == IF stored = NoString THEN default_value ELSE stored

\* The two comparisons of GetBool and its fall-back.
BoolOf(str_val, default_value) ==
    IF str_val \in TrueWords THEN TRUE
    ELSE IF str_val \in FalseWords THEN FALSE
    ELSE default_value

GetInt ==
    /\ "GetInt" \notin called
    /\ called' = called \cup {"GetInt"}
    /\ LET parsed == stoi(GetStringOr(IntToString(default_int)))
       IN  intResult' = IF parsed.thrown THEN default_int ELSE parsed.value
    /\ UNCHANGED <<notCoercion, stored, default_int, default_float, default_bool, floatResult,
                   boolResult>>

GetFloat ==
    /\ "GetFloat" \notin called
    /\ called' = called \cup {"GetFloat"}
    /\ LET parsed == stof(GetStringOr(FloatToString(default_float)))
       IN  floatResult' = IF parsed.thrown THEN default_float ELSE parsed.value
    /\ UNCHANGED <<notCoercion, stored, default_int, default_float, default_bool, intResult,
                   boolResult>>

GetBool ==
    /\ "GetBool" \notin called
    /\ called' = called \cup {"GetBool"}
    /\ boolResult' =
          BoolOf(GetStringOr(IF default_bool THEN <<"t", "r", "u", "e">>
                             ELSE <<"f", "a", "l", "s", "e">>), default_bool)
    /\ UNCHANGED <<notCoercion, stored, default_int, default_float, default_bool, intResult,
                   floatResult>>

InitCoercion ==
    /\ CameraIdle
    /\ ConfigIdle
    /\ DetectorIdle
    /\ LetterboxIdle
    /\ DetectIdle
    /\ PoolIdle
    /\ CalibrationIdle
    /\ TrajectoryIdle
    /\ YoloIdle
    /\ ExportIdle
    /\ stored \in StoredStrings \cup {NoString}
    /\ default_int \in IntDefaults
    /\ default_float \in FloatDefaults
    /\ default_bool \in BOOLEAN
    /\ called = {}
    /\ intResult = 0
    /\ floatResult = <<0, 1>>
    /\ boolResult = FALSE

NextCoercion == GetInt \/ GetFloat \/ GetBool

SpecCoercion == InitCoercion /\ [][NextCoercion]_vars

(***************************************************************************)
(* ONNXRuntimeDetector::PostprocessYOLO, as far as it indexes the output   *)
(* tensor: the values read, and so the detections, are left out.           *)
(***************************************************************************)
InputWidths == {32, 64}

InputHeights == {32, 64}

ClassCounts == {1, 2}

CalculatePredictionCount(width, height) ==
    (width \div 8) * (height \div 8) + (width \div 16) * (height \div 16)
        + (width \div 32) * (height \div 32)

num_predictions == CalculatePredictionCount(input_width, input_height)

data_width == 4 + num_classes

expected_size == num_predictions * data_width

\* The sizes the runtime may report for the output tensor; Detect passes
\* positive sizes only.
OutputSizes(expected, width) ==
    {width, expected - width, expected - 1, expected, expected + width}

\* The channels one pass of the loop reads at prediction i.
ChannelsRead ==
    IF is_single_class_model THEN 0..4 ELSE 0..(4 + num_classes - 1)

\* The largest of the indices channel * num_predictions + i of one pass.
LastIndexRead(i) ==
    LET top == CHOOSE c \in ChannelsRead : \A d \in ChannelsRead : d <= c
    IN  top * num_predictions + i

\* The size check and its warning: safe_predictions is computed and logged.
PostprocessCheck ==
    /\ yoloPc = "start"
    /\ yoloPc' = "loop"
    /\ safe_predictions' =
          IF output_size # expected_size
          THEN Min2(num_predictions, output_size \div data_width)
          ELSE num_predictions
    /\ UNCHANGED <<notYolo, input_width, input_height, num_classes, is_single_class_model,
                   output_size, predIdx, maxRead>>

\* One pass of for (int i = 0; i < num_predictions; i++).
PostprocessPrediction ==
    /\ yoloPc = "loop"
    /\ predIdx < num_predictions
    /\ maxRead' = Max2(maxRead, LastIndexRead(predIdx))
    /\ predIdx' = predIdx + 1
    /\ UNCHANGED <<notYolo, yoloPc, input_width, input_height, num_classes,
                   is_single_class_model, output_size, safe_predictions>>

\* The loop has ended: NonMaxSuppression and return.
PostprocessReturn ==
    /\ yoloPc = "loop"
    /\ predIdx >= num_predictions
    /\ yoloPc' = "returned"
    /\ UNCHANGED <<notYolo, input_width, input_height, num_classes, is_single_class_model,
                   output_size, safe_predictions, predIdx, maxRead>>

InitYolo ==
    /\ CameraIdle
    /\ ConfigIdle
    /\ DetectorIdle
    /\ LetterboxIdle
    /\ DetectIdle
    /\ PoolIdle
    /\ CalibrationIdle
    /\ TrajectoryIdle
    /\ CoercionIdle
    /\ ExportIdle
    /\ yoloPc = "start"
    /\ input_width \in InputWidths
    /\ input_height \in InputHeights
    /\ num_classes \in ClassCounts
    /\ is_single_class_model = (num_classes = 1)
    /\ output_size \in OutputSizes(expected_size, data_width)
    /\ safe_predictions = 0
    /\ predIdx = 0
    /\ maxRead = -1

NextYolo == PostprocessCheck \/ PostprocessPrediction \/ PostprocessReturn

SpecYolo == InitYolo /\ [][NextYolo]_vars

(***************************************************************************)
(* ConfigurationManager::ExportEffectiveConfig                             *)
(***************************************************************************)
ExportFormats == {"json", "yaml", "xml"}

\* for (const auto& [key, value] : tier) SetInTree(effective, MapToJsonPath(key),
\* value.get_value<std::string>()): the loop visits the children of the root of
\* the tier and puts the data of each.
RECURSIVE ExportTier(_, _, _)
ExportTier(effective, tier, i) ==
    IF i > Len(KeyOrder) THEN effective
    ELSE ExportTier(IF KeyOrder[i] \in ChildrenOf(tier, <<>>)
                       THEN SetInTree(effective, MapToJsonPath(KeyOrder[i]), tier[KeyOrder[i]])
                       ELSE effective,
                    tier, i + 1)

effective_config == ExportTier(ExportTier(json_config_, yaml_config_, 1), cli_overrides_, 1)

\* write_json refuses a tree in which a node has both data and children.
WritableAsJson(t) == \A p \in Paths : Has(t, p) /\ ~IsLeaf(t, p) => t[p] = ""

ExportEffectiveConfig ==
    /\ exportOk = "none"
    /\ \E format \in ExportFormats :
          /\ exportFormat' = format
          /\ IF format \in {"json", "yaml"}
             THEN /\ outputWritten' = TRUE
                  /\ IF WritableAsJson(effective_config)
                     THEN outputFile' = effective_config /\ exportOk' = "true"
                     ELSE outputFile' = EmptyTree /\ exportOk' = "false"
             ELSE /\ exportOk' = "false"
                  /\ UNCHANGED <<outputWritten, outputFile>>
    /\ UNCHANGED notExport

NextExport == Initialize \/ SetOverride \/ ExportEffectiveConfig

SpecExport == InitConfig /\ [][NextExport]_vars

(***************************************************************************)
(* Properties of the event loops.                                          *)
(***************************************************************************)
Calls(o) == {o[i] : i \in 1..Len(o)}

\* A step in which the flight loop took a RequestComplete through switch (state).
FlightTrigger == loop = "flight" /\ nframes' = nframes + 1

\* C2: the first trigger moves kWaitingForFirstPrimingPulseGroup to
\* kWaitingForFirstPrimingTimeEnd and stamps timeOfFirstTrigger; a later trigger
\* arriving less than kQuiesceTimeMs after the stamp leaves the state and the
\* stamp alone; the stamp changes in no other step of the loop; hence every state
\* past the priming period is at least kQuiesceTimeMs after the stamp.
C2_PrimingAbsorbed ==
    /\ [](loop = "flight" /\ pc # "start"
            /\ state \notin {"kWaitingForFirstPrimingPulseGroup",
                             "kWaitingForFirstPrimingTimeEnd"}
          => now - timeOfFirstTrigger >= kQuiesceTimeMs)
    /\ [][/\ FlightTrigger /\ state = "kWaitingForFirstPrimingPulseGroup"
             => state' = "kWaitingForFirstPrimingTimeEnd" /\ timeOfFirstTrigger' = now
          /\ FlightTrigger /\ state = "kWaitingForFirstPrimingTimeEnd"
             => /\ timeOfFirstTrigger' = timeOfFirstTrigger
                /\ now - timeOfFirstTrigger < kQuiesceTimeMs
                   => state' = "kWaitingForFirstPrimingTimeEnd" /\ pc' = "loop"
          /\ pc = "loop" /\ timeOfFirstTrigger' # timeOfFirstTrigger
             => state = "kWaitingForFirstPrimingPulseGroup"]_vars

\* C2 witness: a trigger after the first one was absorbed inside the quiesce period.
C2_Witness ==
    /\ loop = "flight" /\ pc = "loop"
    /\ switched = "kWaitingForFirstPrimingTimeEnd"
    /\ state = "kWaitingForFirstPrimingTimeEnd"
    /\ nframes >= 3
    /\ now > timeOfFirstTrigger
    /\ now - timeOfFirstTrigger < kQuiesceTimeMs

\* C3: a trigger received in kWaitingForFirstPrimingTimeEnd at least
\* kQuiesceTimeMs after the stamp moves the state, in that one step, to the target
\* the two flags fix.
C3_AdvanceTarget ==
    [][FlightTrigger /\ state = "kWaitingForFirstPrimingTimeEnd"
         /\ now - timeOfFirstTrigger >= kQuiesceTimeMs
       => /\ state' = IF kUsePreImageSubtraction THEN "kWaitingForPreImageTrigger"
                      ELSE IF kCameraRequiresFlushPulse
                        THEN "kWaitingForFinalImageTrigger"
                      ELSE "kWaitingForFinalImageFlush"
          /\ advanceFrame' = nframes'
          /\ advanceFrame = 0]_vars

\* C3 witness: the priming period ended on a camera with no flush pulse and no
\* pre-image, after at least one absorbed trigger.
C3_Witness ==
    /\ loop = "flight"
    /\ switched = "kWaitingForFirstPrimingTimeEnd"
    /\ state = "kWaitingForFinalImageFlush"
    /\ ~kUsePreImageSubtraction /\ ~kCameraRequiresFlushPulse
    /\ advanceFrame = nframes /\ nframes >= 3

\* C4: a Timeout leaves state, timeOfFirstTrigger, returnImg and the result alone
\* and the loop running; the flight loop stops, re-configures and starts the
\* camera, the watcher and the still loop stop and start it.
C4_TimeoutRestarts ==
    [][msg'.type = "Timeout" /\ msg.type # "Timeout"
       => /\ pc = "loop" /\ pc' = "loop"
          /\ result' = result /\ result' = "none"
          /\ state' = state
          /\ timeOfFirstTrigger' = timeOfFirstTrigger
          /\ returnImg' = returnImg
          /\ nframes' = nframes
          /\ cameraStarted'
          /\ ops' = IF loop = "flight"
                      THEN <<"StopCamera", "ConfigureViewfinder", "StartCamera">>
                      ELSE <<"StopCamera", "StartCamera">>]_vars

\* C4 witness: a Timeout taken in the middle of the state machine.
C4_Witness ==
    /\ loop = "flight" /\ pc = "loop"
    /\ msg.type = "Timeout"
    /\ state = "kWaitingForFinalImageFlush"
    /\ ops = <<"StopCamera", "ConfigureViewfinder", "StartCamera">>
    /\ cameraStarted

\* C5: when the flight loop has reached kFinalImageReceived it has returned true,
\* returnImg is a clone of the frame of the message taken in
\* kWaitingForFinalImageFlush (the last one delivered), and the read-sync that
\* covered the clone has been released.
C5_FinalImageIsClone ==
    loop = "flight" /\ state = "kFinalImageReceived"
    => /\ pc = "returned" /\ result = TRUE
       /\ switched = "kWaitingForFinalImageFlush"
       /\ msg = [type |-> "RequestComplete", frame |-> nframes]
       /\ returnImg = CloneOf(msg.frame)
       /\ ops = <<"StopCamera", "BufferReadSync", "clone", "~BufferReadSync">>
       /\ ~syncHeld

\* C5 witness: a final image, where a final trigger message came before the flush.
C5_Witness ==
    /\ loop = "flight" /\ state = "kFinalImageReceived"
    /\ kCameraRequiresFlushPulse
    /\ returnImg.kind = "copy" /\ returnImg.frame = nframes /\ nframes >= 4

FlushStates == {"kWaitingForPreImageFlush", "kWaitingForFinalImageFlush"}

\* C6: the flight loop takes a BufferReadSync only in a step dispatched on a
\* flush state, and no step leaves one alive, the error returns included.
C6_SyncOnlyInFlush ==
    loop = "flight"
    => /\ "BufferReadSync" \in Calls(ops) => switched \in FlushStates
       /\ SyncBalance(ops) = 0
       /\ ~syncHeld

\* C6 witness: the early return for a null image, taken with the sync acquired.
C6_Witness ==
    /\ loop = "flight" /\ pc = "returned" /\ result = FALSE
    /\ switched = "kWaitingForFinalImageFlush"
    /\ ops = <<"StopCamera", "BufferReadSync", "~BufferReadSync">>
    /\ ~syncHeld

\* The configuration of scenario 6: three priming pulses at 1000 fps, pre-image
\* subtraction on, no InnoMaker set-up pause.
Scenario6 ==
    /\ loop = "flight"
    /\ kNumberPrimingPulses = 3 /\ kPrimingPulseFPS = 1000
    /\ kUsePreImageSubtraction
    /\ kSystemSlot2CameraType # "InnoMakerIMX296GS_Mono"

\* The run of scenario 6: the first trigger and three more absorbed, the fifth
\* ending the priming period.
Scenario6Run == Scenario6 /\ pc # "start" /\ timeOfFirstTrigger = 0 /\ advanceFrame = 5

\* C7 as stated: after the advancing trigger, three more messages (pre-image
\* flush, final trigger, final flush) end the loop in kFinalImageReceived.
C7_ThreeMessagesFinish ==
    Scenario6Run /\ nframes = advanceFrame + 3
    => pc = "returned" /\ state = "kFinalImageReceived"

\* C7 amended: in scenario 6 kQuiesceTimeMs is 4; triggers 0 to 3 ms after the
\* first are absorbed and the one at 5 ms moves to kWaitingForPreImageTrigger;
\* three messages later the loop is still waiting in kWaitingForFinalImageFlush,
\* and the fourth (pre-image trigger, pre-image flush, final trigger, final flush)
\* ends it: in kFinalImageReceived with the clone of that fourth frame, unless the
\* camera handed over a null stream or image, which returns false.
C7_FourMessagesFinish ==
    /\ [](Scenario6 => kQuiesceTimeMs = 4)
    /\ [](Scenario6Run /\ nframes = advanceFrame + 3
          => /\ state = "kWaitingForFinalImageFlush"
             /\ msg.type = "RequestComplete" /\ golf_sim_running_ => pc = "loop")
    /\ [](Scenario6Run /\ nframes = advanceFrame + 4
          => /\ pc = "returned"
             /\ \/ /\ state = "kFinalImageReceived" /\ result = TRUE
                   /\ returnImg = CloneOf(nframes)
                \/ /\ state = "kWaitingForFinalImageFlush" /\ result = FALSE
                   /\ "clone" \notin Calls(ops) /\ returnImg = EmptyImg)
    /\ [][Scenario6 /\ FlightTrigger /\ state = "kWaitingForFirstPrimingTimeEnd"
          => /\ now - timeOfFirstTrigger \in 0..3
                => state' = "kWaitingForFirstPrimingTimeEnd"
             /\ now - timeOfFirstTrigger = 5
                => state' = "kWaitingForPreImageTrigger"]_vars

\* C7 witness: scenario 6 run to the end: nine completed requests, the ninth cloned.
C7_Witness ==
    /\ Scenario6Run /\ now >= 5
    /\ nframes = 9
    /\ pc = "returned" /\ result = TRUE
    /\ state = "kFinalImageReceived"
    /\ returnImg = CloneOf(9)

\* C8: a Quit makes the flight loop return true in that step, with state,
\* timeOfFirstTrigger and returnImg as they were and no call made on the camera.
C8_QuitReturnsTrue ==
    [][loop = "flight" /\ msg'.type = "Quit" /\ msg.type # "Quit"
       => /\ pc = "loop" /\ pc' = "returned"
          /\ result' = TRUE
          /\ state' = state
          /\ timeOfFirstTrigger' = timeOfFirstTrigger
          /\ returnImg' = returnImg /\ returnImg' = EmptyImg
          /\ ops' = <<>>]_vars

\* C8 witness: a Quit taken while waiting for the final flush.
C8_Witness ==
    /\ loop = "flight" /\ msg.type = "Quit"
    /\ state = "kWaitingForFinalImageFlush"
    /\ pc = "returned" /\ result = TRUE

\* C9: in each of the three loops a message that is neither Timeout, Quit nor
\* RequestComplete throws: the function does not return a value, and state,
\* returnImg and the camera are as they were.
C9_UnrecognisedThrows ==
    [][msg'.type = "Other" /\ msg.type # "Other"
       => /\ pc = "loop" /\ pc' = "thrown"
          /\ result' = "none"
          /\ state' = state
          /\ returnImg' = returnImg /\ returnImg' = EmptyImg
          /\ motion_detected' = motion_detected
          /\ ops' = <<>>]_vars

\* C9 witness: the still loop threw on an unrecognised message.
C9_Witness == loop = "still" /\ msg.type = "Other" /\ pc = "thrown" /\ nframes >= 1

\* C10 as stated: a loop head that finds the running flag down stops the camera
\* (the watcher its encoder too) and returns without taking a message.
C10_CancelTearsDown ==
    [][pc = "loop" /\ ~golf_sim_running_ /\ pc' # pc
       => /\ pc' = "returned"
          /\ msg' = msg /\ nframes' = nframes
          /\ "StopCamera" \in Calls(ops') /\ ~cameraStarted'
          /\ loop = "watcher" => "StopEncoder" \in Calls(ops') /\ ~encoderStarted']_vars

(***************************************************************************)
(* Properties of the configuration store.                                  *)
(***************************************************************************)
\* A section is a node that has children and no value of its own.  A tier
\* holds the key k when k is one of its settings: a node that is not a section.
Section(t, k) == Has(t, k) /\ ~IsLeaf(t, k) /\ t[k] = ""

Holds(t, k) == Has(t, k) /\ ~Section(t, k)

Tiers == <<cli_overrides_, userTier, sysTier>>

\* The value the precedence CLI > user > system > default gives the key.
Precedence(k, d) ==
    IF Holds(cli_overrides_, k) THEN cli_overrides_[k]
    ELSE IF Holds(userTier, k) THEN userTier[k]
    ELSE IF Holds(sysTier, k) THEN sysTier[k]
    ELSE d

NoTierHasSection(k) == \A i \in 1..3 : ~Section(Tiers[i], k)

\* A reload after which the user tier no longer holds k.
UserRemoved(k) ==
    /\ initOk = "true" /\ initOk' = "true"
    /\ Holds(userTier, k) /\ ~Has(userTier', k)
    /\ json_config_' # json_config_

OnPathTo(p, k) == Len(p) < Len(k) /\ SubSeq(k, 1, Len(p)) = p

\* A step of SetOverride that changes the runtime tier.
OverrideStep == initOk' = initOk /\ cli_overrides_' # cli_overrides_

\* C11: set_override(k, v) changes the runtime tier only: the merged files, the
\* system and user tiers, the preset values, the mapping and preset tables stay
\* as they were, and so does the runtime node of every key other than k and the
\* nodes on the path to k (those that existed keep their value too).
C11_SetOverrideFrame ==
    [][OverrideStep =>
        /\ UNCHANGED <<json_config_, yaml_config_, sysTier, userTier, mappings_, presets_>>
        /\ \E k \in Paths :
             /\ cli_overrides_'[k] \in CliValues
             /\ \A p \in Paths \ {k} :
                  \/ cli_overrides_'[p] = cli_overrides_[p]
                  \/ OnPathTo(p, k) /\ ~Has(cli_overrides_, p) /\ cli_overrides_'[p] = ""]_vars

\* C11 witness: after set_override("a.b", "4") on a loaded store that had an
\* override for b only, the tier holds a.b, the node a on the way to it, and b.
C11_Witness ==
    /\ initOk = "true"
    /\ json_config_ # EmptyTree
    /\ cli_overrides_[<<"a", "b">>] = "4"
    /\ cli_overrides_[<<"a">>] = ""
    /\ cli_overrides_[<<"b">>] = "3"


\* A step of Reload that is seen in what the store has loaded.
ReloadStep ==
    /\ initOk # "none" /\ reloaded'
    /\ <<json_config_, sysTier, userTier, initOk, reloaded>>'
          # <<json_config_, sysTier, userTier, initOk, reloaded>>

\* C12: reload() leaves the runtime tier as it was, whatever the two files now
\* hold and whether or not the reload succeeds: every key the runtime tier held
\* keeps its value, and get of that key returns it after the reload.
C12_ReloadKeepsRuntime ==
    [][ReloadStep =>
        /\ cli_overrides_' = cli_overrides_
        /\ \A k \in Paths, d \in Defaults :
             Has(cli_overrides_, k) => GetValue(k, d)' = cli_overrides_[k]]_vars

\* C12 witness: a reload has re-read files that hold a.b and b, and the
\* overrides of a.b and b set before are still what get returns.
C12_Witness ==
    /\ reloaded /\ initOk = "true"
    /\ userTier[<<"a", "b">>] = "2" /\ sysTier[<<"b">>] = "1"
    /\ cli_overrides_[<<"a", "b">>] = "4" /\ cli_overrides_[<<"b">>] = "3"
    /\ GetValue(<<"a", "b">>, "0") = "4" /\ GetValue(<<"b">>, "0") = "3"


(***************************************************************************)
(* Properties of validation and presets.                                   *)
(***************************************************************************)
\* The mapping file declares validation rules for the key, some tier holds
\* the key, and the value get returns for it breaks one of the rules.
Offending(k) ==
    /\ k \in DOMAIN mappingsFile.mappings
    /\ HasKey(k)
    /\ ErrorsIn(mappingsFile.mappings, k, GetValue(k, "")) # <<>>

\* A call of validate() that changes what the last call returned.
ValidateStep == validateResult' # validateResult

EntriesFor(errors, k) == {i \in 1..Len(errors) : errors[i].key = k}

\* C13: validate() fails exactly when the effective value (the one get returns)
\* of some key the mapping file declares validation rules for breaks them.
C13_ValidateEffective ==
    [][ValidateStep => (validateResult' = "false" <=> \E k \in Paths : Offending(k))]_vars

\* C14: after validate() the error list has exactly one entry for every
\* offending key and none for any other key.
C14_OneErrorPerKey ==
    [][ValidateStep =>
        \A k \in Paths :
           Cardinality(EntriesFor(validation_errors_', k)) = IF Offending(k) THEN 1 ELSE 0]_vars

\* C15: when the mapping file declares the preset P and the store was
\* initialised with _preset=P, get of every key the preset lists returns the
\* preset's value, unless a runtime override holds the key.
C15_PresetApplied ==
    initOk = "true" /\ cli_overrides_[PresetKey] \in DOMAIN mappingsFile.presets
    => \A k \in SettingKeys, d \in Defaults :
          LET settings == mappingsFile.presets[cli_overrides_[PresetKey]]
          IN  settings[k] # Absent /\ ~Has(cli_overrides_, k) => GetValue(k, d) = settings[k]


\* The tier a source named by GetValueSource stands for: yaml_config_ holds the
\* preset values, json_config_ is documented as the system defaults.
TierOfSource(source) ==
    CASE source = "cli" -> "runtime"
      [] source = "yaml" -> "user"
      [] source = "json" -> "system"
      [] source = "not_found" -> "none"

\* C16: value_source(k) is runtime if the runtime tier holds k, else user if
\* the user file or a preset supplies k, else system if the system file holds
\* k, else none (checked on the keys no tier has as a section).
C16_SourceNamesTier ==
    \A k \in SettingKeys :
       NoTierHasSection(k) =>
          TierOfSource(GetValueSource(k)) =
             IF Holds(cli_overrides_, k) THEN "runtime"
             ELSE IF Holds(yaml_config_, k) \/ Holds(userTier, k) THEN "user"
             ELSE IF Holds(sysTier, k) THEN "system"
             ELSE "none"

\* The first call of Initialize.
InitializeStep == initOk = "none" /\ initOk' # "none"

\* C17: initialize fails exactly when the system file is malformed; when it
\* succeeds and the user file is absent or malformed, nothing of the user file
\* is merged: get of every key returns the runtime override if there is one,
\* else what the system file holds for it, else the default.
C17_OnlySystemFileFatal ==
    [][InitializeStep =>
        /\ initOk' = "false" <=> sysFile.kind = "malformed"
        /\ initOk' = "true" /\ userFile.kind # "json" =>
             /\ userTier' = EmptyTree
             /\ \A k \in Paths, d \in Defaults :
                  GetValue(k, d)' =
                     IF Has(cli_overrides_', k) THEN cli_overrides_'[k]
                     ELSE IF sysFile.kind = "json" /\ Has(sysFile.tree, k) THEN sysFile.tree[k]
                     ELSE d]_vars

\* C17 witness: initialised from a system file holding b and a malformed user
\* file whose readable part holds b too; get of b returns the system value.
C17_Witness ==
    /\ initOk = "true" /\ ~reloaded
    /\ userFile.kind = "malformed" /\ userFile.tree[<<"b">>] = "2"
    /\ sysFile.kind = "json" /\ sysTier[<<"b">>] = "1"
    /\ ~Has(cli_overrides_, <<"b">>)
    /\ userTier = EmptyTree
    /\ GetValue(<<"b">>, "0") = "1"


(***************************************************************************)
(* Properties of the store under two threads.                              *)
(***************************************************************************)
\* C18: no write of a tier overlaps a read (nothing writes json_config_ while
\* the reading thread holds the mutex), and a get(k) that runs during a reload
\* returns the value get(k) had before the reload or has after it.
C18_MutexSerialises ==
    [][/\ json_config_' # json_config_ => config_mutex_ # "reader"
       /\ reloadPc' = "done" /\ observed' # NoValue =>
             observed'.value \in {preValues'[observed'.key],
                                   GetValueIn(cli_overrides_', yaml_config_', json_config_',
                                              observed'.key, "0")}]_vars


(***************************************************************************)
(* Properties of non-max suppression.                                      *)
(***************************************************************************)
Kept == {keptIdx[p] : p \in 1..Len(keptIdx)}

SameClass(a, b) == a.class_id = b.class_id

Overlap(a, b) == Greater(IOU(a.bbox, b.bbox), nms_threshold)

\* C19: whatever detections it is given, non-max suppression returns them ordered by
\* descending confidence, and any two returned boxes of the same class have an IoU
\* that is not above nms_threshold.
C19_OrderedAndApart ==
    nmsPc = "returned" =>
        \A p, q \in 1..Len(nmsResult) :
            p < q =>
                /\ nmsResult[p].confidence >= nmsResult[q].confidence
                /\ SameClass(nmsResult[p], nmsResult[q]) => ~Overlap(nmsResult[p], nmsResult[q])

\* Two boxes of one class whose IoU is exactly the threshold are both returned, in
\* order, while a third detection was suppressed.
C19_Witness ==
    /\ nmsPc = "returned"
    /\ Len(nmsResult) < Len(detections)
    /\ \E p, q \in 1..Len(nmsResult) :
          /\ p < q
          /\ SameClass(nmsResult[p], nmsResult[q])
          /\ nmsResult[p].confidence > nmsResult[q].confidence
          /\ ~Greater(nms_threshold, IOU(nmsResult[p].bbox, nmsResult[q].bbox))

ExampleDetection(x, y, c) == [bbox |-> Rect(x, y, 10, 10), confidence |-> c, class_id |-> 0]

\* C20: the result is the detections that were not dropped; a detection j is dropped
\* only if a retained detection i of the same class, with confidence not below j's,
\* has IoU(i, j) > nms_threshold, so a detection of another class or one that was
\* itself suppressed never causes a drop; and (0,0,10,10,0.9), (1,1,10,10,0.8),
\* (50,50,10,10,0.7) of one class at threshold 0.5 give the first and the third.
C20_NeverOverSuppresses ==
    nmsPc = "returned" =>
        /\ nmsResult = [p \in 1..Len(keptIdx) |-> detections[keptIdx[p]]]
        /\ \A j \in 1..Len(detections) :
              j \notin Kept =>
                  \E i \in Kept :
                      /\ SameClass(detections[i], detections[j])
                      /\ detections[i].confidence >= detections[j].confidence
                      /\ Overlap(detections[i], detections[j])
        /\ \A j \in 1..Len(detections) :
              (\A i \in 1..Len(detections) :
                    i # j => ~SameClass(detections[i], detections[j])) => j \in Kept
        /\ ( /\ nms_threshold = <<1, 2>>
             /\ detections = <<ExampleDetection(0, 0, 9), ExampleDetection(1, 1, 8),
                               ExampleDetection(50, 50, 7)>> )
              => nmsResult = <<ExampleDetection(0, 0, 9), ExampleDetection(50, 50, 7)>>

\* A chain: the first detection suppressed the second, and the third, which the second
\* overlaps above the threshold but the first does not, is returned.
C20_Witness ==
    /\ nmsPc = "returned"
    /\ \E i, j, k \in 1..Len(detections) :
          /\ i < j /\ j < k
          /\ i \in Kept /\ j \notin Kept /\ k \in Kept
          /\ SameClass(detections[i], detections[j]) /\ SameClass(detections[j], detections[k])
          /\ Overlap(detections[i], detections[j])
          /\ Overlap(detections[j], detections[k])
          /\ ~Overlap(detections[i], detections[k])

\* The example of the specification has run to its end.
C20_ExampleRuns ==
    /\ nmsPc = "returned"
    /\ nms_threshold = <<1, 2>>
    /\ detections = <<ExampleDetection(0, 0, 9), ExampleDetection(1, 1, 8),
                      ExampleDetection(50, 50, 7)>>
    /\ nmsResult = <<ExampleDetection(0, 0, 9), ExampleDetection(50, 50, 7)>>


(***************************************************************************)
(* Properties of the letterbox.                                            *)
(***************************************************************************)
\* |f - p| <= 1 for a fraction f and a whole number p.
Within1(f, p) ==
    /\ f[1] - p * f[2] <= f[2]
    /\ p * f[2] - f[1] <= f[2]

\* C21: for every image size and target size, a point of the image that is carried
\* into the tensor by the letterbox and back by the inverse letterbox comes out within
\* 1 px of where it was; and 1280x720 into 640x640 records scale 0.5, x_offset 0 and
\* y_offset 140.
C21_LetterboxRoundTrip ==
    /\ lbPc = "postprocessed" =>
          /\ Within1(origPoint.x, srcPoint.x)
          /\ Within1(origPoint.y, srcPoint.y)
    /\ ( /\ lbPc # "image"
         /\ image = [cols |-> 1280, rows |-> 720]
         /\ input_size = [input_width |-> 640, input_height |-> 640] )
          => /\ letterbox_params_.scale = <<1, 2>>
             /\ letterbox_params_.x_offset = 0
             /\ letterbox_params_.y_offset = 140


(***************************************************************************)
(* Properties of Detect on a shared detector.                              *)
(***************************************************************************)
NoCallInFlight == \A t \in DetectThreads : detectPc[t] = "idle"

\* C22: every Detect call that claimed the pool's input buffer has released it when
\* it returns, by whatever path, so with no call in flight the in-use flag is false
\* and the next call gets the pool buffer; and a call that finds the buffer in use
\* goes on with the thread-local buffer.
C22_ReleasedOnEveryExit ==
    /\ NoCallInFlight => ~input_buffer_in_use
    /\ \A t \in DetectThreads :
          detectPc[t] \in {"preprocess", "run", "postprocess", "release"} =>
              heldBuffer[t] \in {"pool", "fallback"}

\* C23: no two calls in flight both hold the pool's input buffer, the flag stays set
\* for as long as the call that set it holds the buffer, and the letterbox that a call
\* hands to PostprocessYOLO is the one of its own image.
C23_GuardSerialises ==
    /\ \A t, u \in DetectThreads :
          heldBuffer[t] = "pool" /\ heldBuffer[u] = "pool" => t = u
    /\ (\E t \in DetectThreads : heldBuffer[t] = "pool") => input_buffer_in_use
    /\ \A t \in DetectThreads :
          detectPc[t] \in {"release", "count", "load", "store"} => usedParams[t] = t

\* C24: with no call in flight, total_inferences_ is the number of calls that ran to
\* the end and the running mean is the arithmetic mean of their inference times,
\* whether or not a metrics record was passed.
C24_RunningMeanExact ==
    NoCallInFlight =>
        /\ total_inferences_ = doneCount
        /\ avg_inference_time_ms_[1] * doneCount = doneSum * avg_inference_time_ms_[2]


(***************************************************************************)
(* Properties of the preprocessing thread pool.                            *)
(***************************************************************************)
\* C25: destroying the pool terminates: once the destructor has set stop_ and
\* broadcast on cv_, every worker eventually exits and the joins complete.
C25_DestructorTerminates ==
    (ownerPc = "join") ~>
        (ownerPc = "destroyed" /\ \A w \in Workers : workerPc[w] = "exited")

\* The average has been taken and has passed its range check.
Averaged == calPc \in {"angles", "notify", "backup", "write"} \/ calResult = "true"

\* C26: samples whose ball detection failed are dropped: the count of samples
\* is the count of successful detections, the sum is the sum of their focal
\* lengths, and the average is that sum divided by that count.
C26_FailuresDropped ==
    /\ number_samples = successes
    /\ calPc = "loop" => average_focal_length = <<successSum, 1>>
    /\ Averaged => average_focal_length = <<successSum, successes>>

\* The call has left the sampling loop through its end.
LoopCompleted ==
    \/ Averaged
    \/ calFailure \in {"focal_range", "angles_ball", "angle_range", "backup", "write"}

C27_Bounded ==
    /\ imagesTaken <= number_attempts + kNumberOfCalibrationFailuresToTolerate + 1
    /\ calPc = "loop" => number_failures <= kNumberOfCalibrationFailuresToTolerate
    /\ calFailure = "failures" =>
          /\ calResult = "false"
          /\ number_failures = kNumberOfCalibrationFailuresToTolerate + 1
    /\ LoopCompleted =>
          /\ number_failures <= kNumberOfCalibrationFailuresToTolerate
          /\ successes = number_attempts

C27_Retried ==
    (calPc = "loop" /\ calPc' = "loop" /\ number_failures' > number_failures)
        => (calI' = calI /\ imagesTaken' = imagesTaken + 1)

\* C27: a failed detection within the tolerance is retried, the call returns
\* false at the first failure beyond the tolerance, a loop that completes has
\* N successful samples, no more than N + tolerance + 1 pictures are taken,
\* and the call returns.
C27_RetriesThenAborts ==
    /\ []C27_Bounded
    /\ [][C27_Retried]_vars
    /\ <>(calPc = "returned")

\* A loop completed after as many failures as are tolerated, each one retried.
C27_Witness ==
    /\ calPc = "angles"
    /\ kNumberOfCalibrationFailuresToTolerate >= 1
    /\ number_failures = kNumberOfCalibrationFailuresToTolerate
    /\ successes = number_attempts
    /\ imagesTaken = number_attempts + kNumberOfCalibrationFailuresToTolerate

InFocalRange(f) == 2 * f[2] <= f[1] /\ f[1] <= 50 * f[2]

InAngleRange(a) == -45 <= a[1] /\ a[1] <= 45 /\ -45 <= a[2] /\ a[2] <= 45

\* C28: an average focal length outside [2, 50] or an angle beyond 45 degrees
\* makes the call return false with no backup made and the configuration file
\* as it was, and a call that returns true has written a focal length in
\* [2, 50] and two angles within 45 degrees.
C28_RangeRejected ==
    /\ Averaged => InFocalRange(average_focal_length)
    /\ calPc \in {"notify", "backup", "write"} => InAngleRange(camera_angles)
    /\ calFailure \in {"focal_range", "angle_range"} =>
          /\ calResult = "false"
          /\ backupFile = NoFile
          /\ configFile = OldConfig
    /\ calFailure = "focal_range" => ~InFocalRange(average_focal_length)
    /\ calFailure = "angle_range" => ~InAngleRange(camera_angles)
    /\ calResult = "true" =>
          /\ configFile.written = "calibrated"
          /\ InFocalRange(configFile.focal)
          /\ InAngleRange(configFile.angles)

\* An angle of 60 degrees was computed: false, and no file was touched.
C28_Witness ==
    /\ calFailure = "angle_range"
    /\ camera_angles = <<60, 0>>
    /\ calResult = "false"
    /\ backupFile = NoFile /\ configFile = OldConfig

C29_BackupBeforeWrite ==
    /\ configFile # OldConfig => backupFile = OldConfig
    /\ calFailure = "backup" => (calResult = "false" /\ configFile = OldConfig)

C29_WriteStep == configFile' # configFile => (backupFile = configFile /\ backupFile' = backupFile)

\* C29: the configuration file changes only when the backup already holds its
\* old contents, and a failed copy leaves the file as it was and makes the
\* call return false.
C29_BackupFirst == []C29_BackupBeforeWrite /\ [][C29_WriteStep]_vars

\* The file has been rewritten and the backup holds what it held before.
C29_Witness ==
    /\ calResult = "true"
    /\ configFile.written = "calibrated"
    /\ backupFile = OldConfig

C30_NotifyStep ==
    calPc = "notify" =>
        /\ calPc' = "backup"
        /\ UNCHANGED <<calResult, calFailure, backupFile, configFile, treeValues>>

C30_ResultFromFiles ==
    /\ calFailure # "web"
    /\ (calPc = "returned" /\ putResults # <<>>) => calFailure \in {"none", "backup", "write"}
    /\ (putResults # <<>> /\ calPc # "backup") => (backupFile = OldConfig \/ calFailure = "backup")

\* C30: whatever the two PUTs return, the call goes on to the backup with
\* nothing decided, and what it returns afterwards is decided by the copy and
\* the write alone.
C30_WebIsBestEffort == []C30_ResultFromFiles /\ [][C30_NotifyStep]_vars

\* Both PUTs failed and the call wrote the file and returned true.
C30_Witness ==
    /\ putResults = <<FALSE, FALSE>>
    /\ calResult = "true"
    /\ configFile.written = "calibrated"
    /\ backupFile = OldConfig

\* The message the watcher took last is a frame whose motion result is true.
MovingFrame == msg.type = "RequestComplete" /\ msg.motion_detect_result = "moved"

C31_Exits ==
    loop = "watcher" =>
       /\ pc = "loop" => (~motion_detected /\ ~MovingFrame)
       /\ pc = "thrown" => ~motion_detected
       /\ pc = "returned" =>
             /\ result = motion_detected
             /\ result <=> MovingFrame
             /\ result => /\ msg.frame = nframes
                          /\ ops = <<"EncodeBuffer", "Process", "StopCamera", "StopEncoder">>
                          /\ ~cameraStarted /\ ~encoderStarted

C31_NothingAfterReturn ==
    (loop = "watcher" /\ pc = "returned")
        => UNCHANGED <<pc, result, motion_detected, msg, nframes, ops>>

\* C31: the watcher returns true exactly when the frame it took last has a
\* true motion result; it has then stopped the camera and the encoder and set
\* motion_detected, and takes no further frame; on every other exit
\* motion_detected and the return value are false.
C31_SingleMovedEvent == []C31_Exits /\ [][C31_NothingAfterReturn]_vars

\* The watcher returned true on a moving frame that followed frames without motion.
C31_Witness ==
    /\ loop = "watcher" /\ pc = "returned" /\ result = TRUE
    /\ motion_detected /\ MovingFrame /\ nframes >= 3

\* The input is one the ranges reject: velocity outside [50, 250], vertical
\* angle outside [-10, 60], horizontal angle beyond 45 or a spin beyond 10000.
OutOfRange(in) ==
    \/ in.initial_velocity_mph < 100 \/ in.initial_velocity_mph > 500
    \/ in.vertical_launch_angle_deg < -20 \/ in.vertical_launch_angle_deg > 120
    \/ in.horizontal_launch_angle_deg < -90 \/ in.horizontal_launch_angle_deg > 90
    \/ in.backspin_rpm < -20000 \/ in.backspin_rpm > 20000
    \/ in.sidespin_rpm < -20000 \/ in.sidespin_rpm > 20000

\* C32: for an input outside the ranges calculateCarry returns ok = false, a
\* non-empty message and carry 0, calculateFullTrajectory returns an empty
\* trajectory, and the physics library is not invoked.
C32_InvalidInputRejected ==
    OutOfRange(input) =>
       /\ libraryCalls = 0
       /\ trajPc \in {"carried", "traced"} =>
             /\ ~carryResult.calculation_successful
             /\ carryResult.error_message # ""
             /\ carryResult.carry_distance_yards = 0
       /\ trajPc = "traced" => fullTrajectory = "empty"

\* The whole string is a number: an optional sign, digits, and an optional
\* fraction, with a digit somewhere and nothing before or after.
IsNumber(s) ==
    LET d == AfterSign(s, 1)
        e == DigitsEnd(s, d)
        f == IF e <= Len(s) /\ s[e] = "." THEN e + 1 ELSE e
        g == DigitsEnd(s, f)
    IN  /\ g = Len(s) + 1
        /\ (e > d \/ g > f)

C33_Bool ==
    "GetBool" \in called =>
       /\ stored \in TrueWords => boolResult = TRUE
       /\ stored \in FalseWords => boolResult = FALSE
       /\ stored \notin TrueWords \cup FalseWords => boolResult = default_bool

C33_Numbers ==
    (stored # NoString /\ ~IsNumber(stored)) =>
       /\ "GetInt" \in called => intResult = default_int
       /\ "GetFloat" \in called => floatResult = default_float

\* C33: GetBool gives true for true, 1, yes, on, false for false, 0, no, off,
\* and the default for any other string or a missing key; GetInt and GetFloat
\* give the default for a string that is not a number.
C33_TolerantCoercion == C33_Bool /\ C33_Numbers

\* C34: PostprocessYOLO reads the output tensor below output_size only, and
\* when output_size is not P * (4 + C) it processes no more than the smaller
\* of P and output_size / (4 + C) predictions.
C34_ReadsInsideTensor ==
    /\ maxRead < output_size
    /\ (yoloPc \in {"loop", "returned"} /\ output_size # expected_size) =>
          predIdx <= Min2(num_predictions, output_size \div data_width)

\* The owner is inside PreprocessBatch.
InPreprocessBatch == ownerPc \in {"pushed", "polling"}

\* C35: when PreprocessBatch has returned, no task it enqueued is waiting in
\* the queue or still being processed by a worker.
C35_BatchFullyProcessed ==
    (batches >= 1 /\ ~InPreprocessBatch) =>
       /\ tasks_ = 0
       /\ \A w \in Workers : workerPc[w] # "process"

\* A step of Reload that returns false.
FailedReloadStep == ReloadStep /\ initOk' = "false"

\* C36: a reload that fails leaves every key's value as get returned it
\* before the reload.
C36_FailedReloadKeepsState ==
    [][FailedReloadStep =>
          \A key \in SettingKeys, d \in Defaults :
              GetValue(key, d)' = GetValue(key, d)]_vars

C37_MergedView ==
    exportOk = "true" =>
        \A key \in SettingKeys, d \in Defaults :
            HasKey(key) => outputFile[MapToJsonPath(key)] = GetValue(key, d)

C37_UnknownFormat ==
    (exportOk # "none" /\ exportFormat \notin {"json", "yaml"}) =>
        (exportOk = "false" /\ ~outputWritten)

\* C37: the exported file holds, for every key that some tier holds, the value
\* get returns for it; an unknown format returns false and writes nothing.
C37_ExportIsMergedView == C37_MergedView /\ C37_UnknownFormat

\* A PUT of a calibration value has reached the web collaborator.
ValueSent == \E n \in DOMAIN putResults : putResults[n]

\* C38: a calibration that returns false has sent no value to the web
\* collaborator and has left the configuration tree with the focal length and
\* the angles it held before.
C38_NoEffectOnFailure ==
    calResult = "false" => (~ValueSent /\ treeValues = OldConfig)

\* The place of a state along the capture sequence.
Rank(st) ==
    CASE st = "kWaitingForFirstPrimingPulseGroup" -> 1
      [] st = "kWaitingForFirstPrimingTimeEnd" -> 2
      [] st = "kWaitingForPreImageTrigger" -> 3
      [] st = "kWaitingForPreImageFlush" -> 4
      [] st = "kWaitingForFinalImageTrigger" -> 5
      [] st = "kWaitingForFinalImageFlush" -> 6
      [] st = "kFinalImageReceived" -> 7
      [] OTHER -> 0

C39_States ==
    loop = "flight" =>
       /\ Rank(state) >= 1
       /\ (pc = "returned" /\ result = TRUE /\ msg.type # "Quit") =>
             /\ state = "kFinalImageReceived"
             /\ returnImg = CloneOf(msg.frame)
             /\ returnImg # EmptyImg

C39_Steps ==
    (loop = "flight" /\ state' # state) =>
       /\ Rank(state') > Rank(state)
       /\ Rank(state) >= 3 => Rank(state') = Rank(state) + 1
       /\ state' = "kFinalImageReceived" => state = "kWaitingForFinalImageFlush"

\* C39: the state of the flight loop only moves forward along the capture
\* sequence (the pre-image pair and the final trigger may be skipped after
\* the priming period, nothing else), the second-priming states are never
\* entered, kFinalImageReceived is entered from kWaitingForFinalImageFlush
\* only, and a return of true without a Quit has assigned the returned image.
C39_ForwardOnly == []C39_States /\ [][C39_Steps]_vars

\* The whole sequence with the pre-image pair was walked and the image returned.
C39_Witness ==
    /\ loop = "flight" /\ pc = "returned" /\ result = TRUE
    /\ kUsePreImageSubtraction
    /\ state = "kFinalImageReceived" /\ returnImg # EmptyImg
    /\ nframes >= 6

====
